---- MODULE Spec2Model ----
(***************************************************************************)
(* A model of ova2stemcell: rdiff.Patch (delta application with checksum   *)
(* verification), ExtractOVA (flat archive extraction) and                 *)
(* RemoveItemBlock (removal of one device block of an OVF document).       *)
(***************************************************************************)
EXTENDS Integers, Sequences, FiniteSets, TLC

(***************************************************************************)
(* Bounds of the model.                                                    *)
(***************************************************************************)
MaxBasis == 3
MaxTarget == 3
MaxBlock == 2
HashMod == 7

Byte == {0, 1}

Min(a, b) == IF a < b THEN a ELSE b

SeqsUpTo(S, n) == UNION {[1..k -> S] : k \in 0..n}

(***************************************************************************)
(* Patch: state.                                                           *)
(***************************************************************************)
VARIABLES
    pc,            \* position of Patch (the calling task)
    dpc,           \* position of the decode goroutine
    basis,         \* content of the basis file
    delta,         \* content of the delta file, a sequence of records
    want,          \* the target the delta was derived from (ghost)
    checkFile,     \* Patch's checkFile argument
    openFail,      \* which of the three files cannot be opened, if any
    blockSize,     \* rs.BlockSize
    dpos,          \* records of the delta consumed by deltaDecode
    pending,       \* the operation the decode goroutine is sending
    dres,          \* the value ReadOperations returns
    opsClosed,     \* close(ops) has run
    hashOps,       \* content of the buffered channel hashOps
    hashOpsClosed, \* close(hashOps) has run
    decodeError,   \* the shared variable decodeError
    decodeWritten, \* the goroutine has assigned decodeError
    curOp,         \* the operation ApplyDelta is applying
    out,           \* bytes written to newfile
    created,       \* newfile has been created
    hasher,        \* state of the md5 hasher, NoHasher when nil
    applyErr,      \* the value ApplyDelta returns
    hashOp,        \* the record Patch received from hashOps
    ret,           \* the value Patch returns, "running" before it returns
    applied,       \* the operations ApplyDelta has applied, in order (ghost)
    afterStop      \* transfers made since the stop channel was closed (ghost)

patchVars == <<pc, dpc, basis, delta, want, checkFile, openFail, blockSize,
               dpos, pending, dres, opsClosed, hashOps, hashOpsClosed,
               decodeError, decodeWritten, curOp, out, created, hasher,
               applyErr, hashOp, ret, applied, afterStop>>

(***************************************************************************)
(* ExtractOVA: state.                                                      *)
(***************************************************************************)
VARIABLES
    xpc,        \* position of ExtractOVA
    ovaExists,  \* the ova file can be opened
    archive,    \* the entries of the tar archive, in order
    apos,       \* entries consumed by tr.Next
    limit,      \* the loop counter limit
    dest0,      \* files of the destination directory before the call (ghost)
    dest,       \* files of the destination directory: name -> file
    madeFor,    \* indexes of the entries a file was created for (ghost)
    xret        \* the value ExtractOVA returns, "running" before it returns

extractVars == <<xpc, ovaExists, archive, apos, limit, dest0, dest, madeFor, xret>>

(***************************************************************************)
(* RemoveItemBlock: state.                                                 *)
(***************************************************************************)
VARIABLES
    rpc,     \* position of the caller of RemoveItemBlock
    doc,     \* the document passed to RemoveItemBlock, a sequence of tokens
    rid,     \* the identifier passed to RemoveItemBlock
    rdoc,    \* the document RemoveItemBlock returns
    rerr,    \* the error RemoveItemBlock returns
    rdoc2,   \* the document a second call on rdoc returns
    rerr2    \* the error a second call on rdoc returns

docVars == <<rpc, doc, rid, rdoc, rerr, rdoc2, rerr2>>

(***************************************************************************)
(* Config and the cancellable readers and writers: state.                  *)
(***************************************************************************)
VARIABLES
    cStop,      \* the channel c.stop has been closed
    cTmpdir,    \* c.tmpdir, NoDir when it is the empty string
    dirs,       \* the temporary directories that exist
    made,       \* how many temporary directories ioutil.TempDir has created
    cpanic,     \* a call on the Config has panicked
    call,       \* the last call made on the Config or on a wrapper
    res,        \* what that call returned
    under,      \* what the wrapped stream returned when it was last invoked
    ioUnder,    \* how many times the wrapped stream has been invoked
    stopCalls,  \* how many times Config.Stop has been called
    ncalls      \* how many calls have been made

configVars == <<cStop, cTmpdir, dirs, made, cpanic, call, res, under, ioUnder,
                stopCalls, ncalls>>

(***************************************************************************)
(* A run of the pipeline (main with its signal handler): state.            *)
(***************************************************************************)
VARIABLES
    variant,    \* "vhd": realMain under xmain; "ova": main of the OVA pipeline
    mpc,        \* position of the main task
    cImage,     \* c.Image is set
    cManifest,  \* c.Manifest is set
    cStemcell,  \* c.Stemcell is set
    cSha1sum,   \* c.Sha1sum is set
    wsFiles,    \* files of the earlier stages in the temporary directory
    pkg,        \* the stemcell file in the temporary directory
    pkgEntries, \* the tar entries written into the stemcell file, in order
    outFile,    \* the file at the output path
    stages,     \* the stages that have succeeded, in order
    failed,     \* the stage whose error ended the run
    stopping,   \* the signal handler's flag
    hpc,        \* position of the signal handler
    exitStatus, \* how the process ended
    errPrinted, \* the error was written to os.Stderr
    killed      \* the handler ended the process on a second signal

runVars == <<variant, mpc, cImage, cManifest, cStemcell, cSha1sum, wsFiles, pkg,
             pkgEntries,
             outFile, stages, failed, stopping, hpc, exitStatus, errPrinted,
             killed>>

(***************************************************************************)
(* Functions checked on their own: state.                                  *)
(***************************************************************************)
VARIABLES
    fpc,        \* "idle", "called" before and "done" after the call
    version,    \* the version string handed to the validation
    verr,       \* what ValidateVersion returned
    verrLower,  \* what validateVersion returned
    vmxName,    \* the file name handed to VMXTemplate
    vmxOut,     \* the lines VMXTemplate wrote
    vmxErr,     \* what VMXTemplate returned
    flagsIn,    \* the command line and the files it names
    inputErr,   \* what ValidateInputFlags returned
    flagsOut    \* what ValidateFlags returned, or that it panicked

fnVars == <<fpc, version, verr, verrLower, vmxName, vmxOut, vmxErr,
            flagsIn, inputErr, flagsOut>>

vars == <<patchVars, extractVars, docVars, configVars, runVars, fnVars>>

\* what each component leaves alone
patchFrame == <<extractVars, docVars, configVars, runVars, fnVars>>
extractFrame == <<patchVars, docVars, configVars, runVars, fnVars>>
docFrame == <<patchVars, extractVars, configVars, runVars, fnVars>>
configFrame == <<patchVars, extractVars, docVars, runVars, fnVars>>
runFrame == <<patchVars, extractVars, docVars, fnVars>>
fnFrame == <<patchVars, extractVars, docVars, configVars, runVars>>

NoHasher == -1
NoOp == [t |-> "none"]
HashOpsCap == 2

(***************************************************************************)
(* The digest: md5 is modelled as a streaming hash with a small range.     *)
(***************************************************************************)
HashWrite(h, b) == (h * 3 + b + 1) % HashMod

RECURSIVE HashBytes(_, _)
HashBytes(h, s) ==
    IF s = <<>> THEN h ELSE HashBytes(HashWrite(h, Head(s)), Tail(s))

Sum(s) == HashBytes(0, s)

(***************************************************************************)
(* The encoder that derives a delta from a basis and a target (rsync's     *)
(* CreateDelta): whole basis blocks found in the target become block      *)
(* operations, merged into ranges when consecutive; other bytes become     *)
(* data operations.                                                        *)
(***************************************************************************)
BasisBlock(b, bs, i) == SubSeq(b, i * bs + 1, Min((i + 1) * bs, Len(b)))

FullBlocks(b, bs) == {i \in 0..(Len(b) \div bs) : (i + 1) * bs <= Len(b)}

MatchAt(b, bs, t, p) ==
    {i \in FullBlocks(b, bs) :
        /\ p + bs <= Len(t)
        /\ SubSeq(t, p + 1, p + bs) = BasisBlock(b, bs, i)}

MinOf(S) == CHOOSE x \in S : \A y \in S : x <= y

AppendBlock(acc, i) ==
    IF acc # <<>> /\ acc[Len(acc)].t = "block" /\ acc[Len(acc)].last + 1 = i
    THEN [acc EXCEPT ![Len(acc)].last = i]
    ELSE Append(acc, [t |-> "block", first |-> i, last |-> i])

AppendData(acc, byte) ==
    IF acc # <<>> /\ acc[Len(acc)].t = "data"
    THEN [acc EXCEPT ![Len(acc)].data = Append(@, byte)]
    ELSE Append(acc, [t |-> "data", data |-> <<byte>>])

RECURSIVE Encode(_, _, _, _, _)
Encode(b, bs, t, p, acc) ==
    IF p >= Len(t) THEN acc
    ELSE IF MatchAt(b, bs, t, p) # {}
         THEN Encode(b, bs, t, p + bs, AppendBlock(acc, MinOf(MatchAt(b, bs, t, p))))
         ELSE Encode(b, bs, t, p + 1, AppendData(acc, t[p + 1]))

Header(bs) == [t |-> "header", type |-> "delta", bs |-> bs]
HashRec(d) == [t |-> "hash", data |-> d]
BadRec == [t |-> "bad"]

\* The delta file of target t against basis b: header, operations, checksum.
Wire(b, bs, t) == <<Header(bs)>> \o Encode(b, bs, t, 0, <<>>) \o <<HashRec(Sum(t))>>

Front(s) == SubSeq(s, 1, Len(s) - 1)

\* Ways a delta file departs from the correct encoding.
Mangles == {"none", "noHash", "wrongHash", "empty", "sigHeader",
            "corruptTail", "corruptHead", "badIndex"}

Mangle(d, m, b, bs) ==
    CASE m = "none" -> d
      [] m = "noHash" -> Front(d)
      [] m = "wrongHash" ->
            Front(d) \o <<HashRec((d[Len(d)].data + 1) % HashMod)>>
      [] m = "empty" -> <<>>
      [] m = "sigHeader" -> <<[d[1] EXCEPT !.type = "signature"]>> \o Tail(d)
      [] m = "corruptTail" -> Front(d) \o <<BadRec>>
      [] m = "corruptHead" -> <<d[1], BadRec>> \o Tail(d)
      [] m = "badIndex" ->
            <<d[1], [t |-> "block", first |-> Len(b), last |-> Len(b)]>> \o Tail(d)

(***************************************************************************)
(* proto.Reader.Header: the block size the header declares, io.EOF when    *)
(* the stream ends before a header, another error for a header of the      *)
(* wrong type.                                                             *)
(***************************************************************************)
ReadHeader(d) ==
    IF d = <<>> THEN [bs |-> 0, err |-> "EOF"]
    ELSE IF d[1].t # "header" \/ d[1].type # "delta"
         THEN [bs |-> 0, err |-> "ErrHeader"]
         ELSE [bs |-> d[1].bs, err |-> "nil"]

(***************************************************************************)
(* RSync.ApplyDelta's treatment of one operation: every block of the range *)
(* is read from the basis and written to the target and the hasher, in     *)
(* order; a block that starts at or after the end of the basis is an       *)
(* error; data is written as it is.                                        *)
(***************************************************************************)
WriteTo(st, bytes) ==
    [st EXCEPT !.out = @ \o bytes,
               !.hasher = IF @ = NoHasher THEN @ ELSE HashBytes(@, bytes)]

RECURSIVE WriteBlocks(_, _, _, _, _)
WriteBlocks(st, b, bs, i, last) ==
    IF i > last THEN st
    ELSE IF i * bs >= Len(b) THEN [st EXCEPT !.err = "EOF"]
         ELSE WriteBlocks(WriteTo(st, BasisBlock(b, bs, i)), b, bs, i + 1, last)

ApplyOp(st, b, bs, op) ==
    IF op.t = "block" THEN WriteBlocks(st, b, bs, op.first, op.last)
    ELSE WriteTo(st, op.data)

(***************************************************************************)
(* Patch: initial states.                                                  *)
(***************************************************************************)
PatchIdle ==
    /\ pc = "idle" /\ dpc = "idle"
    /\ basis = <<>> /\ delta = <<>> /\ want = <<>>
    /\ checkFile = FALSE /\ openFail = "none"
    /\ blockSize = 0 /\ dpos = 0 /\ pending = NoOp /\ dres = "nil"
    /\ opsClosed = FALSE /\ hashOps = <<>> /\ hashOpsClosed = FALSE
    /\ decodeError = "nil" /\ decodeWritten = FALSE /\ curOp = NoOp
    /\ out = <<>> /\ created = FALSE /\ hasher = NoHasher
    /\ applyErr = "nil" /\ hashOp = NoOp /\ ret = "running"
    /\ applied = <<>> /\ afterStop = 0

PatchInit ==
    /\ pc = "start" /\ dpc = "idle"
    /\ basis \in SeqsUpTo(Byte, MaxBasis)
    /\ want \in SeqsUpTo(Byte, MaxTarget)
    /\ \E bs \in 1..MaxBlock, m \in Mangles :
          delta = Mangle(Wire(basis, bs, want), m, basis, bs)
    /\ checkFile \in BOOLEAN
    /\ openFail \in {"none", "basis", "delta", "newfile"}
    /\ blockSize = 0 /\ dpos = 0 /\ pending = NoOp /\ dres = "nil"
    /\ opsClosed = FALSE /\ hashOps = <<>> /\ hashOpsClosed = FALSE
    /\ decodeError = "nil" /\ decodeWritten = FALSE /\ curOp = NoOp
    /\ out = <<>> /\ created = FALSE /\ hasher = NoHasher
    /\ applyErr = "nil" /\ hashOp = NoOp /\ ret = "running"
    /\ applied = <<>> /\ afterStop = 0

(***************************************************************************)
(* Patch: the calling task.                                                *)
(***************************************************************************)
MaxAfterStop == 2

\* one more read of the delta, or one more operation applied to newfile;
\* counted from the closing of the stop channel on
Transferred == IF cStop THEN Min(afterStop + 1, MaxAfterStop) ELSE afterStop

\* os.Open(basis), os.Open(delta), os.Create(newfile)
PatchOpen ==
    /\ pc = "start"
    /\ IF openFail # "none"
       THEN /\ ret' = "ErrOpen"
            /\ pc' = "done"
            /\ created' = created
       ELSE /\ created' = TRUE
            /\ pc' = "header"
            /\ ret' = ret
    /\ UNCHANGED <<hashOp, dpc, basis, delta, want, checkFile, openFail, blockSize,
                   dpos, pending, dres, opsClosed, hashOps, hashOpsClosed,
                   decodeError, decodeWritten, curOp, out, hasher, applyErr>>
    /\ UNCHANGED <<applied, afterStop>>
    /\ UNCHANGED patchFrame

\* rs.BlockSize, err = deltaDecode.Header(proto.TypeDelta)
\* mutant: the end of input is passed on as it is
HeaderErrorKeepsEOF(err) == err

HeaderError(err) == IF err = "EOF" THEN "ErrUnexpectedEOF" ELSE err

PatchHeader ==
    /\ pc = "header"
    /\ LET h == ReadHeader(delta) IN
         IF h.err # "nil"
         THEN /\ ret' = HeaderError(h.err)
              /\ pc' = "done"
              /\ UNCHANGED <<blockSize, dpos>>
         ELSE /\ blockSize' = h.bs
              /\ dpos' = 1
              /\ pc' = "spawn"
              /\ ret' = ret
    /\ UNCHANGED <<hashOp, dpc, basis, delta, want, checkFile, openFail,
                   pending, dres, opsClosed, hashOps, hashOpsClosed,
                   decodeError, decodeWritten, curOp, out, created, hasher,
                   applyErr>>
    /\ UNCHANGED <<applied, afterStop>>
    /\ UNCHANGED patchFrame

\* the channels are made, the decode goroutine is started, the hasher is made
NewHasher(check) == IF check THEN 0 ELSE NoHasher

PatchSpawn ==
    /\ pc = "spawn"
    /\ dpc' = "read"
    /\ hasher' = NewHasher(checkFile)
    /\ pc' = "apply"
    /\ UNCHANGED <<hashOp, basis, delta, want, checkFile, openFail, blockSize,
                   dpos, pending, dres, opsClosed, hashOps, hashOpsClosed,
                   decodeError, decodeWritten, curOp, out, created,
                   applyErr, ret>>
    /\ UNCHANGED <<applied, afterStop>>
    /\ UNCHANGED patchFrame

(***************************************************************************)
(* The decode goroutine: deltaDecode.ReadOperations(ops, hashOps), then    *)
(* the assignment of decodeError, then the deferred close(ops).            *)
(***************************************************************************)
\* mutant: the send on ops does not wait for the receiver
DecodeReadRunsAhead ==
    /\ dpc \in {"read", "sendOp"}
    /\ IF dpos >= Len(delta)
       THEN /\ dres' = "nil"
            /\ dpc' = "return"
            /\ UNCHANGED <<dpos, pending>>
       ELSE LET rec == delta[dpos + 1] IN
            /\ dpos' = dpos + 1
            /\ IF rec.t = "hash"
               THEN dpc' = "sendHash" /\ pending' = rec /\ dres' = dres
               ELSE IF rec.t \in {"block", "data"}
                    THEN dpc' = "sendOp" /\ pending' = rec /\ dres' = dres
                    ELSE dpc' = "return" /\ pending' = pending
                         /\ dres' = "ErrDecode"
    /\ UNCHANGED <<hashOp, pc, basis, delta, want, checkFile, openFail, blockSize,
                   opsClosed, hashOps, hashOpsClosed, decodeError,
                   decodeWritten, curOp, out, created, hasher, applyErr, ret>>
    /\ afterStop' = IF dpos < Len(delta) THEN Transferred ELSE afterStop
    /\ UNCHANGED applied
    /\ UNCHANGED patchFrame

DecodeRead ==
    /\ dpc = "read"
    /\ IF dpos >= Len(delta)
       THEN /\ dres' = "nil"
            /\ dpc' = "return"
            /\ UNCHANGED <<dpos, pending>>
       ELSE LET rec == delta[dpos + 1] IN
            /\ dpos' = dpos + 1
            /\ IF rec.t = "hash"
               THEN dpc' = "sendHash" /\ pending' = rec /\ dres' = dres
               ELSE IF rec.t \in {"block", "data"}
                    THEN dpc' = "sendOp" /\ pending' = rec /\ dres' = dres
                    ELSE dpc' = "return" /\ pending' = pending
                         /\ dres' = "ErrDecode"
    /\ UNCHANGED <<hashOp, pc, basis, delta, want, checkFile, openFail, blockSize,
                   opsClosed, hashOps, hashOpsClosed, decodeError,
                   decodeWritten, curOp, out, created, hasher, applyErr, ret>>
    /\ afterStop' = IF dpos < Len(delta) THEN Transferred ELSE afterStop
    /\ UNCHANGED applied
    /\ UNCHANGED patchFrame

\* hashOps <- op, which blocks while the buffer is full
DecodeSendHash ==
    /\ dpc = "sendHash"
    /\ Len(hashOps) < HashOpsCap
    /\ hashOps' = Append(hashOps, pending)
    /\ pending' = NoOp
    /\ dpc' = "read"
    /\ UNCHANGED <<hashOp, pc, basis, delta, want, checkFile, openFail, blockSize,
                   dpos, dres, opsClosed, hashOpsClosed, decodeError,
                   decodeWritten, curOp, out, created, hasher, applyErr, ret>>
    /\ UNCHANGED <<applied, afterStop>>
    /\ UNCHANGED patchFrame

\* ReadOperations returns: its deferred close(hashOps) runs
DecodeReturn ==
    /\ dpc = "return"
    /\ hashOpsClosed' = TRUE
    /\ dpc' = "assign"
    /\ UNCHANGED <<hashOp, pc, basis, delta, want, checkFile, openFail, blockSize,
                   dpos, pending, dres, opsClosed, hashOps, decodeError,
                   decodeWritten, curOp, out, created, hasher, applyErr, ret>>
    /\ UNCHANGED <<applied, afterStop>>
    /\ UNCHANGED patchFrame

\* decodeError = <the value returned>
DecodeAssign ==
    /\ dpc = "assign"
    /\ decodeError' = dres
    /\ decodeWritten' = TRUE
    /\ dpc' = "close"
    /\ UNCHANGED <<hashOp, pc, basis, delta, want, checkFile, openFail, blockSize,
                   dpos, pending, dres, opsClosed, hashOps, hashOpsClosed,
                   curOp, out, created, hasher, applyErr, ret>>
    /\ UNCHANGED <<applied, afterStop>>
    /\ UNCHANGED patchFrame

\* defer close(ops)
\* mutant: ops is closed before decodeError is assigned
DecodeCloseBeforeAssign ==
    /\ \/ dpc = "close"
       \/ dpc = "assign" /\ ~opsClosed
    /\ opsClosed' = TRUE
    /\ dpc' = IF dpc = "close" THEN "done" ELSE dpc
    /\ UNCHANGED <<hashOp, pc, basis, delta, want, checkFile, openFail, blockSize,
                   dpos, pending, dres, hashOps, hashOpsClosed, decodeError,
                   decodeWritten, curOp, out, created, hasher, applyErr, ret>>
    /\ UNCHANGED <<applied, afterStop>>
    /\ UNCHANGED patchFrame

\* mutant: ops is closed while an operation is still being sent
DecodeCloseDropsPending ==
    /\ dpc \in {"close", "sendOp"}
    /\ opsClosed' = TRUE
    /\ dpc' = "done"
    /\ UNCHANGED <<hashOp, pc, basis, delta, want, checkFile, openFail, blockSize,
                   dpos, pending, dres, hashOps, hashOpsClosed, decodeError,
                   decodeWritten, curOp, out, created, hasher, applyErr, ret>>
    /\ UNCHANGED <<applied, afterStop>>
    /\ UNCHANGED patchFrame

DecodeClose ==
    /\ dpc = "close"
    /\ opsClosed' = TRUE
    /\ dpc' = "done"
    /\ UNCHANGED <<hashOp, pc, basis, delta, want, checkFile, openFail, blockSize,
                   dpos, pending, dres, hashOps, hashOpsClosed, decodeError,
                   decodeWritten, curOp, out, created, hasher, applyErr, ret>>
    /\ UNCHANGED <<applied, afterStop>>
    /\ UNCHANGED patchFrame

(***************************************************************************)
(* rs.ApplyDelta(fsFile, basisFile, ops, hasher): for op := range ops.     *)
(***************************************************************************)
\* ops is unbuffered: the send and the receive happen together
ApplyRecv ==
    /\ pc = "apply"
    /\ dpc = "sendOp"
    /\ curOp' = pending
    /\ pending' = NoOp
    /\ dpc' = "read"
    /\ pc' = "write"
    /\ UNCHANGED <<hashOp, basis, delta, want, checkFile, openFail, blockSize,
                   dpos, dres, opsClosed, hashOps, hashOpsClosed,
                   decodeError, decodeWritten, out, created, hasher,
                   applyErr, ret>>
    /\ UNCHANGED <<applied, afterStop>>
    /\ UNCHANGED patchFrame

\* the range loop ends when ops is closed
ApplyClosed ==
    /\ pc = "apply"
    /\ opsClosed
    /\ applyErr' = "nil"
    /\ pc' = "afterApply"
    /\ UNCHANGED <<hashOp, dpc, basis, delta, want, checkFile, openFail, blockSize,
                   dpos, pending, dres, opsClosed, hashOps, hashOpsClosed,
                   decodeError, decodeWritten, curOp, out, created, hasher,
                   ret>>
    /\ UNCHANGED <<applied, afterStop>>
    /\ UNCHANGED patchFrame

ApplyWrite ==
    /\ pc = "write"
    /\ LET st == ApplyOp([out |-> out, hasher |-> hasher, err |-> "nil"],
                         basis, blockSize, curOp) IN
         /\ out' = st.out
         /\ hasher' = st.hasher
         /\ applyErr' = st.err
         /\ pc' = IF st.err = "nil" THEN "apply" ELSE "afterApply"
    /\ curOp' = NoOp
    /\ UNCHANGED <<hashOp, dpc, basis, delta, want, checkFile, openFail, blockSize,
                   dpos, pending, dres, opsClosed, hashOps, hashOpsClosed,
                   decodeError, decodeWritten, created, ret>>
    /\ applied' = Append(applied, curOp)
    /\ afterStop' = Transferred
    /\ UNCHANGED patchFrame

(***************************************************************************)
(* Patch after ApplyDelta has returned.                                    *)
(***************************************************************************)
\* the value Patch returns before the checksum comparison, "" when it goes on
\* mutant: the error of the decode goroutine is not looked at
AfterApplyIgnoresDecode(aerr, derr, check) ==
    IF aerr # "nil" THEN aerr
    ELSE IF check = FALSE THEN "nil"
    ELSE "running"

\* mutant: the checksum is compared whether or not it was asked for
AfterApplyAlwaysChecks(aerr, derr, check) ==
    IF aerr # "nil" THEN aerr
    ELSE IF derr # "nil" THEN derr
    ELSE "running"

AfterApply(aerr, derr, check) ==
    IF aerr # "nil" THEN aerr
    ELSE IF derr # "nil" THEN derr
    ELSE IF check = FALSE THEN "nil"
    ELSE "running"

PatchAfterApply ==
    /\ pc = "afterApply"
    /\ ret' = AfterApply(applyErr, decodeError, checkFile)
    /\ pc' = IF ret' = "running" THEN "recvHash" ELSE "done"
    /\ UNCHANGED <<hashOp, dpc, basis, delta, want, checkFile, openFail, blockSize,
                   dpos, pending, dres, opsClosed, hashOps, hashOpsClosed,
                   decodeError, decodeWritten, curOp, out, created, hasher,
                   applyErr>>
    /\ UNCHANGED <<applied, afterStop>>
    /\ UNCHANGED patchFrame

\* the comparison of the checksum record with the digest of the target
NilData == -1

\* the zero Operation a receive from the closed channel yields
ZeroOp == [t |-> "zero", data |-> NilData]

\* mutant: the comparison of the digests is inverted
CheckHashInverted(data, sum) ==
    IF data = NilData THEN "NoTargetSumError"
    ELSE IF data = sum THEN "HashNoMatchError"
    ELSE "nil"

\* mutant: the missing record is not looked for and a record is trusted
CheckHashTrusting(data, sum) ==
    IF data = NilData THEN "nil"
    ELSE IF data # sum THEN "nil"
    ELSE "nil"

CheckHash(data, sum) ==
    IF data = NilData THEN "NoTargetSumError"
    ELSE IF data # sum THEN "HashNoMatchError"
    ELSE "nil"

\* hashOp := <-hashOps, which blocks while hashOps is empty and open
PatchRecvHash ==
    /\ pc = "recvHash"
    /\ hashOps # <<>> \/ hashOpsClosed
    /\ hashOp' = IF hashOps # <<>> THEN Head(hashOps) ELSE ZeroOp
    /\ ret' = CheckHash(hashOp'.data, hasher)
    /\ hashOps' = IF hashOps # <<>> THEN Tail(hashOps) ELSE hashOps
    /\ pc' = "done"
    /\ UNCHANGED <<dpc, basis, delta, want, checkFile, openFail, blockSize,
                   dpos, pending, dres, opsClosed, hashOpsClosed,
                   decodeError, decodeWritten, curOp, out, created, hasher,
                   applyErr>>
    /\ UNCHANGED <<applied, afterStop>>
    /\ UNCHANGED patchFrame

(***************************************************************************)
(* ExtractOVA: constants and inputs.                                       *)
(***************************************************************************)
\* limit := 100
Limit == 100
\* how many entries beyond the limit the archives of the model have
MaxOver == 2
\* longest archive of arbitrary entries
MaxMixed == 3

Slash == "/"
Dot == "."

\* strconv's decimal form of n, as characters
Digits == <<"0", "1", "2", "3", "4", "5", "6", "7", "8", "9">>

RECURSIVE Decimal(_)
Decimal(n) ==
    IF n < 10 THEN <<Digits[n + 1]>>
    ELSE Append(Decimal(n \div 10), Digits[(n % 10) + 1])

(***************************************************************************)
(* filepath.Base                                                           *)
(***************************************************************************)
RECURSIVE StripSlashes(_)
StripSlashes(path) ==
    IF path # <<>> /\ path[Len(path)] = Slash
    THEN StripSlashes(SubSeq(path, 1, Len(path) - 1))
    ELSE path

RECURSIVE LastSlash(_, _)
LastSlash(path, i) ==
    IF i >= 1 /\ path[i] # Slash THEN LastSlash(path, i - 1) ELSE i

Base(path) ==
    IF path = <<>> THEN <<Dot>>
    ELSE LET p == StripSlashes(path)
             i == LastSlash(p, Len(p))
             q == IF i >= 1 THEN SubSeq(p, i + 1, Len(p)) ELSE p
         IN IF q = <<>> THEN <<Slash>> ELSE q

(***************************************************************************)
(* Where filepath.Join(dirname, name) points for a name that is its own    *)
(* base: the directory itself, its parent, or a direct child.              *)
(***************************************************************************)
Locate(name) ==
    IF name = <<Dot>> \/ name = <<Slash>> THEN "self"
    ELSE IF name = <<Dot, Dot>> THEN "parent"
    ELSE "child"

\* mutant: the file is opened without O_EXCL
PathExistsNoExcl(d, name) == Locate(name) # "child"

\* os.OpenFile(path, O_CREATE|O_EXCL|O_WRONLY, mode) fails when path exists
PathExists(d, name) == Locate(name) # "child" \/ name \in DOMAIN d

(***************************************************************************)
(* Archives.                                                               *)
(***************************************************************************)
Entry(name, type, perm, content, short) ==
    [name |-> name, type |-> type, perm |-> perm, content |-> content,
     short |-> short]

\* the entry file-<i> of a valid archive: its content is its index and a newline
FileEntry(i) ==
    Entry(<<"f">> \o Decimal(i), "regular", 420, Append(Decimal(i), "\n"), FALSE)

CleanArchive(n) == [i \in 1..n |-> FileEntry(i - 1)]

MixedEntries ==
    { Entry(<<"a">>, "regular", 420, <<"1">>, FALSE),
      Entry(<<"a">>, "regular", 493, <<"2">>, FALSE),
      Entry(<<"b">>, "regular", 420, <<"3", "4">>, TRUE),
      Entry(<<"d", Slash, "a">>, "regular", 420, <<"5">>, FALSE),
      Entry(<<"d", Slash>>, "dir", 493, <<>>, FALSE),
      Entry(<<"d">>, "dir", 493, <<>>, FALSE),
      Entry(<<"d">>, "regular", 420, <<"5", "5">>, FALSE),
      Entry(<<"s">>, "symlink", 511, <<>>, FALSE),
      Entry(<<>>, "regular", 420, <<"6">>, FALSE),
      Entry(<<Dot>>, "regular", 420, <<"7">>, FALSE),
      Entry(<<Dot, Dot>>, "regular", 420, <<"8">>, FALSE),
      Entry(<<Slash>>, "regular", 420, <<"8">>, FALSE),
      Entry(<<"b">>, "corrupt", 0, <<>>, FALSE) }

File(content, perm) == [content |-> content, perm |-> perm]

EmptyDir == [n \in {} |-> File(<<>>, 0)]

Destinations == {EmptyDir, [n \in {<<"a">>} |-> File(<<"9">>, 384)]}

ExtractIdle ==
    /\ xpc = "idle" /\ ovaExists = FALSE /\ archive = <<>> /\ apos = 0
    /\ limit = 0 /\ dest0 = EmptyDir /\ dest = EmptyDir /\ madeFor = {}
    /\ xret = "running"

ExtractInit ==
    /\ xpc = "start"
    /\ ovaExists \in BOOLEAN
    /\ archive \in {CleanArchive(n) : n \in 0..(Limit + MaxOver)}
                     \cup SeqsUpTo(MixedEntries, MaxMixed)
    /\ apos = 0
    /\ limit = 0
    /\ dest0 \in Destinations
    /\ dest = dest0
    /\ madeFor = {}
    /\ xret = "running"

(***************************************************************************)
(* ExtractOVA                                                              *)
(***************************************************************************)
\* os.Open(ova); tr := tar.NewReader(tf); limit := 100
ExtractOpen ==
    /\ xpc = "start"
    /\ IF ovaExists
       THEN xpc' = "loop" /\ limit' = Limit /\ xret' = xret
       ELSE xpc' = "done" /\ limit' = limit /\ xret' = "ErrOpen"
    /\ UNCHANGED <<ovaExists, archive, apos, dest0, dest, madeFor>>
    /\ UNCHANGED extractFrame

\* the loop condition
LoopGuard(l) == l >= 0

\* mutant: the name is not compared with its base
IsFlatAnyName(name) == TRUE

\* filepath.Base(name) != name rejects the entry
IsFlat(name) == Base(name) = name

\* mutant: symbolic links pass for regular files
IsRegularOrLink(type) == type \in {"regular", "symlink"}

\* mode.IsRegular()
IsRegular(type) == type = "regular"

\* what one entry does to the destination: the error returned and the files
EntryResult(e, d) ==
    IF e.type = "corrupt" THEN [err |-> "ErrRead", dest |-> d, made |-> FALSE]
    ELSE IF ~IsFlat(e.name)
         THEN [err |-> "ErrSubdirectory", dest |-> d, made |-> FALSE]
    ELSE IF ~IsRegular(e.type)
         THEN [err |-> "ErrFileMode", dest |-> d, made |-> FALSE]
    ELSE IF PathExists(d, e.name)
         THEN [err |-> "ErrOpenFile", dest |-> d, made |-> FALSE]
    ELSE IF e.short
         THEN [err |-> "ErrWriteFile", made |-> TRUE,
               dest |-> [n \in DOMAIN d \cup {e.name} |->
                            IF n = e.name
                            THEN File(SubSeq(e.content, 1, Len(e.content) - 1), e.perm)
                            ELSE d[n]]]
    ELSE [err |-> "nil", made |-> TRUE,
          dest |-> [n \in DOMAIN d \cup {e.name} |->
                       IF n = e.name THEN File(e.content, e.perm) ELSE d[n]]]

\* one iteration that meets the end of the archive: break
ExtractEOF ==
    /\ xpc = "loop"
    /\ LoopGuard(limit)
    /\ apos = Len(archive)
    /\ xpc' = "after"
    /\ UNCHANGED <<ovaExists, archive, apos, limit, dest0, dest, madeFor, xret>>
    /\ UNCHANGED extractFrame

\* mutant: the loop goes on to the next entry after an error
ExtractEntryGoesOn ==
    /\ xpc = "loop"
    /\ LoopGuard(limit)
    /\ apos < Len(archive)
    /\ LET r == EntryResult(archive[apos + 1], dest) IN
         /\ apos' = apos + 1
         /\ dest' = r.dest
         /\ madeFor' = IF r.made THEN madeFor \cup {apos + 1} ELSE madeFor
         /\ xpc' = "loop" /\ limit' = limit - 1
         /\ xret' = IF r.err = "nil" THEN xret ELSE r.err
    /\ UNCHANGED <<ovaExists, archive, dest0>>
    /\ UNCHANGED extractFrame

\* one iteration that reads an entry
ExtractEntry ==
    /\ xpc = "loop"
    /\ LoopGuard(limit)
    /\ apos < Len(archive)
    /\ LET r == EntryResult(archive[apos + 1], dest) IN
         /\ apos' = apos + 1
         /\ dest' = r.dest
         /\ madeFor' = IF r.made THEN madeFor \cup {apos + 1} ELSE madeFor
         /\ IF r.err = "nil"
            THEN xpc' = "loop" /\ limit' = limit - 1 /\ xret' = xret
            ELSE xpc' = "done" /\ limit' = limit /\ xret' = r.err
    /\ UNCHANGED <<ovaExists, archive, dest0>>
    /\ UNCHANGED extractFrame

\* the loop condition fails
ExtractLoopEnd ==
    /\ xpc = "loop"
    /\ ~LoopGuard(limit)
    /\ xpc' = "after"
    /\ UNCHANGED <<ovaExists, archive, apos, limit, dest0, dest, madeFor, xret>>
    /\ UNCHANGED extractFrame

\* if limit <= 0 { return errors.New("tar: too many files in archive") }
TooMany(l) == l <= 0

ExtractAfter ==
    /\ xpc = "after"
    /\ xret' = IF TooMany(limit) THEN "ErrTooManyFiles" ELSE "nil"
    /\ xpc' = "done"
    /\ UNCHANGED <<ovaExists, archive, apos, limit, dest0, dest, madeFor>>
    /\ UNCHANGED extractFrame

(***************************************************************************)
(* RemoveItemBlock.  A document is a sequence of tokens: the delimiters of *)
(* an Item block, the element names that identify a block, and other text. *)
(***************************************************************************)
MaxDoc == 6

ItemOpen == "<Item>"
ItemClose == "</Item>"
Ids == {"ethernet0", "ethernet1"}
Tokens == {ItemOpen, ItemClose, "text"} \cup Ids

\* Item blocks are delimited and do not nest
RECURSIVE WellFormedFrom(_, _, _)
WellFormedFrom(d, i, inItem) ==
    IF i > Len(d) THEN ~inItem
    ELSE IF d[i] = ItemOpen THEN ~inItem /\ WellFormedFrom(d, i + 1, TRUE)
    ELSE IF d[i] = ItemClose THEN inItem /\ WellFormedFrom(d, i + 1, FALSE)
    ELSE WellFormedFrom(d, i + 1, inItem)

WellFormed(d) == WellFormedFrom(d, 1, FALSE)

\* the spans <<first, last>> of the Item blocks of d that hold the name id,
\* found by one scan of the document
RECURSIVE ScanItems(_, _, _, _, _, _)
ScanItems(d, id, i, start, seen, acc) ==
    IF i > Len(d) THEN acc
    ELSE IF d[i] = ItemOpen THEN ScanItems(d, id, i + 1, i, FALSE, acc)
    ELSE IF d[i] = ItemClose
         THEN ScanItems(d, id, i + 1, 0, FALSE,
                        IF start # 0 /\ seen THEN Append(acc, <<start, i>>) ELSE acc)
    ELSE ScanItems(d, id, i + 1, start, seen \/ (start # 0 /\ d[i] = id), acc)

\* mutant: several matching blocks are taken for one
MatchErrorFirstOnly(n) ==
    IF n = 0 THEN "ErrElementNotFound" ELSE "nil"

\* the error for n matching blocks
MatchError(n) ==
    IF n = 0 THEN "ErrElementNotFound"
    ELSE IF n > 1 THEN "ErrMultipleElementsFound"
    ELSE "nil"

\* mutant: the closing delimiter of the block is left in the document
RemoveItemBlockLeavesClose(d, id) ==
    LET a == ScanItems(d, id, 1, 0, FALSE, <<>>) IN
      IF MatchError(Len(a)) # "nil"
      THEN [doc |-> <<>>, err |-> MatchError(Len(a))]
      ELSE [doc |-> SubSeq(d, 1, a[1][1] - 1) \o SubSeq(d, a[1][2], Len(d)),
            err |-> "nil"]

RemoveItemBlock(d, id) ==
    LET a == ScanItems(d, id, 1, 0, FALSE, <<>>) IN
      IF MatchError(Len(a)) # "nil"
      THEN [doc |-> <<>>, err |-> MatchError(Len(a))]
      ELSE [doc |-> SubSeq(d, 1, a[1][1] - 1) \o SubSeq(d, a[1][2] + 1, Len(d)),
            err |-> "nil"]

DocIdle ==
    /\ rpc = "idle" /\ doc = <<>> /\ rid = "ethernet0" /\ rdoc = <<>>
    /\ rerr = "none" /\ rdoc2 = <<>> /\ rerr2 = "none"

DocInit ==
    /\ rpc = "start"
    /\ doc \in {d \in SeqsUpTo(Tokens, MaxDoc) : WellFormed(d)}
    /\ rid \in Ids
    /\ rdoc = <<>> /\ rerr = "none" /\ rdoc2 = <<>> /\ rerr2 = "none"

\* s, err := RemoveItemBlock(orig, id)
Remove ==
    /\ rpc = "start"
    /\ LET r == RemoveItemBlock(doc, rid) IN
         rdoc' = r.doc /\ rerr' = r.err
    /\ rpc' = "removed"
    /\ UNCHANGED <<doc, rid, rdoc2, rerr2>>
    /\ UNCHANGED docFrame

\* RemoveItemBlock(s, id) on the document a successful call returned
RemoveAgain ==
    /\ rpc = "removed"
    /\ rerr = "nil"
    /\ LET r == RemoveItemBlock(rdoc, rid) IN
         rdoc2' = r.doc /\ rerr2' = r.err
    /\ rpc' = "done"
    /\ UNCHANGED <<doc, rid, rdoc, rerr>>
    /\ UNCHANGED docFrame

(***************************************************************************)
(* Config: Stop, Cleanup, TempDir and the wrappers CancelReader,           *)
(* CancelWriter and CancelWriteCloser.                                     *)
(***************************************************************************)
MaxCalls == 4

NoDir == 0
NoResult == [err |-> "none"]

\* what a wrapped stream may return: bytes moved, end of input, a failure
UnderResults == {[n |-> 2, err |-> "nil"], [n |-> 0, err |-> "EOF"],
                 [n |-> 1, err |-> "ErrIO"]}

Interrupted == [n |-> 0, err |-> "ErrInterupt"]

\* select { case <-stop: return 0, ErrInterupt; default: return r.r.Read(p) }
\* the result and whether the wrapped stream is invoked
\* mutant: the reader does not look at the stop channel
CancelReaderReadThrough(stop, r) == [res |-> r, invoked |-> TRUE]

CancelReaderRead(stop, r) ==
    IF stop THEN [res |-> Interrupted, invoked |-> FALSE]
    ELSE [res |-> r, invoked |-> TRUE]

CancelWriterWrite(stop, r) ==
    IF stop THEN [res |-> Interrupted, invoked |-> FALSE]
    ELSE [res |-> r, invoked |-> TRUE]

CancelWriteCloserWrite(stop, r) ==
    IF stop THEN [res |-> Interrupted, invoked |-> FALSE]
    ELSE [res |-> r, invoked |-> TRUE]

Wrappers == {"CancelReader.Read", "CancelWriter.Write", "CancelWriteCloser.Write"}

WrapperCall(kind, stop, r) ==
    CASE kind = "CancelReader.Read" -> CancelReaderRead(stop, r)
      [] kind = "CancelWriter.Write" -> CancelWriterWrite(stop, r)
      [] kind = "CancelWriteCloser.Write" -> CancelWriteCloserWrite(stop, r)

\* mutant: the directory is not removed
CleanupKeeps(tmp, ds) == ds

\* Config.Cleanup: os.RemoveAll(c.tmpdir) unless c.tmpdir is empty
Cleanup(tmp, ds) == IF tmp # NoDir THEN ds \ {tmp} ELSE ds

\* close(c.stop) panics when the channel is closed already
ClosePanics(stop) == stop

\* mutant: a missing directory is made again
TempDirRecreates(tmp, ds, n, mkOk) ==
    IF tmp # NoDir /\ tmp \in ds
    THEN [tmpdir |-> tmp, dirs |-> ds, made |-> n,
          res |-> [path |-> tmp, err |-> "nil"]]
    ELSE IF ~mkOk
         THEN [tmpdir |-> tmp, dirs |-> ds, made |-> n,
               res |-> [path |-> NoDir, err |-> "ErrCreatingTempDir"]]
         ELSE [tmpdir |-> n + 1, dirs |-> ds \cup {n + 1}, made |-> n + 1,
               res |-> [path |-> n + 1, err |-> "nil"]]

\* Config.TempDir: mkOk tells whether ioutil.TempDir succeeds
TempDir(tmp, ds, n, mkOk) ==
    IF tmp # NoDir
    THEN IF tmp \notin ds
         THEN [tmpdir |-> tmp, dirs |-> ds, made |-> n,
               res |-> [path |-> NoDir, err |-> "ErrOpeningTempDir"]]
         ELSE [tmpdir |-> tmp, dirs |-> ds, made |-> n,
               res |-> [path |-> tmp, err |-> "nil"]]
    ELSE IF ~mkOk
         THEN [tmpdir |-> tmp, dirs |-> ds, made |-> n,
               res |-> [path |-> NoDir, err |-> "ErrCreatingTempDir"]]
         ELSE [tmpdir |-> n + 1, dirs |-> ds \cup {n + 1}, made |-> n + 1,
               res |-> [path |-> n + 1, err |-> "nil"]]

\* c := Config{stop: make(chan struct{})}
ConfigIdle ==
    /\ cStop = FALSE /\ cTmpdir = NoDir /\ dirs = {} /\ made = 0
    /\ cpanic = FALSE /\ call = "none" /\ res = NoResult
    /\ under = NoResult /\ ioUnder = 0 /\ stopCalls = 0 /\ ncalls = 0

CanCall == ~cpanic /\ ncalls < MaxCalls

\* c.Stop(): defer c.Cleanup(); close(c.stop)
CallStop ==
    /\ CanCall
    /\ cStop' = TRUE
    /\ cpanic' = ClosePanics(cStop)
    /\ dirs' = Cleanup(cTmpdir, dirs)
    /\ call' = "Stop"
    /\ res' = NoResult
    /\ stopCalls' = stopCalls + 1
    /\ ncalls' = ncalls + 1
    /\ UNCHANGED <<cTmpdir, made, under, ioUnder>>
    /\ UNCHANGED configFrame

\* c.Cleanup()
CallCleanup ==
    /\ CanCall
    /\ dirs' = Cleanup(cTmpdir, dirs)
    /\ call' = "Cleanup"
    /\ res' = NoResult
    /\ ncalls' = ncalls + 1
    /\ UNCHANGED <<cStop, cTmpdir, made, cpanic, under, ioUnder, stopCalls>>
    /\ UNCHANGED configFrame

\* c.TempDir()
CallTempDir ==
    /\ CanCall
    /\ \E mkOk \in BOOLEAN :
          LET t == TempDir(cTmpdir, dirs, made, mkOk) IN
            /\ cTmpdir' = t.tmpdir
            /\ dirs' = t.dirs
            /\ made' = t.made
            /\ res' = t.res
    /\ call' = "TempDir"
    /\ ncalls' = ncalls + 1
    /\ UNCHANGED <<cStop, cpanic, under, ioUnder, stopCalls>>
    /\ UNCHANGED configFrame

\* a Read or Write on a wrapper made by c.Reader or c.Writer
CallWrapper ==
    /\ CanCall
    /\ \E kind \in Wrappers, r \in UnderResults :
          LET w == WrapperCall(kind, cStop, r) IN
            /\ call' = kind
            /\ res' = w.res
            /\ under' = IF w.invoked THEN r ELSE under
            /\ ioUnder' = IF w.invoked THEN ioUnder + 1 ELSE ioUnder
    /\ ncalls' = ncalls + 1
    /\ UNCHANGED <<cStop, cTmpdir, dirs, made, cpanic, stopCalls>>
    /\ UNCHANGED configFrame

\* the temporary directory is removed by something other than the Config
RemovedOutside ==
    /\ cTmpdir \in dirs
    /\ dirs' = dirs \ {cTmpdir}
    /\ UNCHANGED <<cStop, cTmpdir, made, cpanic, call, res, under, ioUnder,
                   stopCalls, ncalls>>
    /\ UNCHANGED configFrame

(***************************************************************************)
(* A run of the pipeline.  A stage is one step of the main task; what a    *)
(* stage's I/O and the external tools do is an input of the step.          *)
(***************************************************************************)
NoFile == "none"

RunIdle ==
    /\ variant = "none" /\ mpc = "idle"
    /\ cImage = FALSE /\ cManifest = FALSE /\ cStemcell = FALSE
    /\ cSha1sum = FALSE
    /\ wsFiles = {} /\ pkg = NoFile /\ outFile = NoFile
    /\ pkgEntries = <<>>
    /\ stages = <<>> /\ failed = "none"
    /\ stopping = FALSE /\ hpc = "wait"
    /\ exitStatus = "running" /\ errPrinted = FALSE /\ killed = FALSE

\* c := Config{stop: make(chan struct{})}; the handler waits for a signal
RunInit ==
    /\ variant \in {"vhd", "ova"}
    /\ mpc = IF variant = "vhd" THEN "workspace" ELSE "validate"
    /\ cImage = FALSE /\ cManifest = FALSE /\ cStemcell = FALSE
    /\ cSha1sum = FALSE
    /\ wsFiles = {} /\ pkg = NoFile /\ outFile = NoFile
    /\ pkgEntries = <<>>
    /\ stages = <<>> /\ failed = "none"
    /\ stopping = FALSE /\ hpc = "wait"
    /\ exitStatus = "running" /\ errPrinted = FALSE /\ killed = FALSE

Running == exitStatus = "running"

configRest == <<cpanic, call, res, under, ioUnder, stopCalls, ncalls>>

\* os.RemoveAll takes the files with the directory
FilesIn(ds, files) == IF cTmpdir \in ds THEN files ELSE {}
PkgIn(ds, p) == IF cTmpdir \in ds THEN p ELSE NoFile

\* the stage returned nil
Succeed(stage, next) ==
    /\ stages' = Append(stages, stage)
    /\ mpc' = next
    /\ UNCHANGED failed

\* mutant: the stage is tried again after its error
FailRetries(stage) ==
    /\ failed' = stage
    /\ mpc' = mpc
    /\ UNCHANGED stages

\* the stage returned an error
Fail(stage) ==
    /\ failed' = stage
    /\ mpc' = "fail"
    /\ UNCHANGED stages

\* a panic in the main task ends the process; nothing is deferred
Panic(stage) ==
    /\ failed' = stage
    /\ mpc' = "exited"
    /\ exitStatus' = "panic"
    /\ UNCHANGED stages

\* realMain: tmpdir, err := c.TempDir()
RunWorkspace ==
    /\ Running /\ mpc = "workspace"
    /\ \E mkOk \in BOOLEAN :
          LET t == TempDir(cTmpdir, dirs, made, mkOk) IN
            /\ cTmpdir' = t.tmpdir /\ dirs' = t.dirs /\ made' = t.made
            /\ IF t.res.err = "nil" THEN Succeed("workspace", "patch")
               ELSE Fail("workspace")
    /\ UNCHANGED <<variant, cImage, cManifest, cStemcell, cSha1sum, wsFiles, pkg,
                   outFile, stopping, hpc, exitStatus, errPrinted, killed>>
    /\ UNCHANGED <<cStop, configRest>>
    /\ UNCHANGED pkgEntries
    /\ UNCHANGED runFrame

\* a stage of realMain that writes one file into tmpdir and does not use
\* the Config: it fails when its work fails or the directory is gone
FileStage(stage, file, next) ==
    /\ \E ok \in BOOLEAN :
          IF ok /\ cTmpdir \in dirs
          THEN wsFiles' = wsFiles \cup {file} /\ Succeed(stage, next)
          ELSE UNCHANGED wsFiles /\ Fail(stage)
    /\ UNCHANGED <<variant, cImage, cManifest, cStemcell, cSha1sum, pkg,
                   outFile, stopping, hpc, exitStatus, errPrinted, killed>>
    /\ UNCHANGED configVars
    /\ UNCHANGED pkgEntries
    /\ UNCHANGED runFrame

\* rdiff.Patch(vhd, delta, patchedVMDK, true)
RunPatch ==
    /\ Running /\ mpc = "patch"
    /\ FileStage("patch", "image.vmdk", "descriptor")

\* os.OpenFile(vmxPath, O_CREATE|O_EXCL|O_WRONLY); VMXTemplate(patchedVMDK, vmxFile)
RunDescriptor ==
    /\ Running /\ mpc = "descriptor"
    /\ FileStage("descriptor", "image.vmx", "conversion")

\* ConvertVMX2OVA(vmxPath, ovaPath)
RunConversion ==
    /\ Running /\ mpc = "conversion"
    /\ FileStage("conversion", "image.ova", "manifest")

\* ValidateOVAFile(OvaFile)
RunValidate ==
    /\ Running /\ mpc = "validate"
    /\ \E ok \in BOOLEAN :
          IF ok THEN Succeed("validate", "image") ELSE Fail("validate")
    /\ UNCHANGED <<variant, cImage, cManifest, cStemcell, cSha1sum, wsFiles, pkg,
                   outFile, stopping, hpc, exitStatus, errPrinted, killed>>
    /\ UNCHANGED configVars
    /\ UNCHANGED pkgEntries
    /\ UNCHANGED runFrame

\* mutant: a failed write leaves the image file behind
RunImageKeepsPartial ==
    /\ Running /\ mpc = "image"
    /\ \E openOk \in BOOLEAN, mkOk \in BOOLEAN, ok \in BOOLEAN :
          LET t == TempDir(cTmpdir, dirs, made, mkOk) IN
          IF ~openOk
          THEN /\ Fail("image")
               /\ UNCHANGED <<cTmpdir, dirs, made, cImage, cSha1sum, wsFiles>>
          ELSE /\ cTmpdir' = t.tmpdir /\ dirs' = t.dirs /\ made' = t.made
               /\ IF t.res.err # "nil"
                  THEN Fail("image") /\ UNCHANGED <<cImage, cSha1sum, wsFiles>>
                  ELSE /\ cImage' = TRUE
                       /\ IF ok /\ ~cStop
                          THEN /\ wsFiles' = wsFiles \cup {"image"}
                               /\ cSha1sum' = TRUE
                               /\ Succeed("image", "manifest")
                          ELSE /\ wsFiles' = wsFiles \cup {"image"}
                               /\ UNCHANGED cSha1sum
                               /\ Fail("image")
    /\ UNCHANGED <<variant, cManifest, cStemcell, pkg,
                   outFile, stopping, hpc, exitStatus, errPrinted, killed>>
    /\ UNCHANGED <<cStop, configRest>>
    /\ UNCHANGED pkgEntries
    /\ UNCHANGED runFrame

\* c.CreateImageFromOVA(OvaFile): the image is written through c.Writer
RunImage ==
    /\ Running /\ mpc = "image"
    /\ \E openOk \in BOOLEAN, mkOk \in BOOLEAN, ok \in BOOLEAN :
          LET t == TempDir(cTmpdir, dirs, made, mkOk) IN
          IF ~openOk
          THEN /\ Fail("image")
               /\ UNCHANGED <<cTmpdir, dirs, made, cImage, cSha1sum, wsFiles>>
          ELSE /\ cTmpdir' = t.tmpdir /\ dirs' = t.dirs /\ made' = t.made
               /\ IF t.res.err # "nil"
                  THEN Fail("image") /\ UNCHANGED <<cImage, cSha1sum, wsFiles>>
                  ELSE /\ cImage' = TRUE
                       /\ IF ok /\ ~cStop
                          THEN /\ wsFiles' = wsFiles \cup {"image"}
                               /\ cSha1sum' = TRUE
                               /\ Succeed("image", "manifest")
                          ELSE /\ UNCHANGED <<cSha1sum, wsFiles>>
                               /\ Fail("image")
    /\ UNCHANGED <<variant, cManifest, cStemcell, pkg,
                   outFile, stopping, hpc, exitStatus, errPrinted, killed>>
    /\ UNCHANGED <<cStop, configRest>>
    /\ UNCHANGED pkgEntries
    /\ UNCHANGED runFrame

\* c.WriteManifest()
RunManifest ==
    /\ Running /\ mpc = "manifest"
    /\ \E mkOk \in BOOLEAN, ok \in BOOLEAN :
          LET t == TempDir(cTmpdir, dirs, made, mkOk) IN
          IF cManifest
          THEN /\ Panic("manifest")
               /\ UNCHANGED <<cTmpdir, dirs, made, cManifest, wsFiles>>
          ELSE /\ cTmpdir' = t.tmpdir /\ dirs' = t.dirs /\ made' = t.made
               /\ UNCHANGED exitStatus
               /\ IF t.res.err # "nil"
                  THEN Fail("manifest") /\ UNCHANGED <<cManifest, wsFiles>>
                  ELSE /\ cManifest' = TRUE
                       /\ IF ok
                          THEN /\ wsFiles' = wsFiles \cup {"stemcell.MF"}
                               /\ Succeed("manifest", "package")
                          ELSE UNCHANGED wsFiles /\ Fail("manifest")
    /\ UNCHANGED <<variant, cImage, cStemcell, cSha1sum, pkg,
                   outFile, stopping, hpc, errPrinted, killed>>
    /\ UNCHANGED <<cStop, configRest>>
    /\ UNCHANGED pkgEntries
    /\ UNCHANGED runFrame

\* c.CreateStemcell() up to the creation of the stemcell file
RunStemcellOpen ==
    /\ Running /\ mpc = "package"
    /\ \E mkOk \in BOOLEAN, ok \in BOOLEAN :
          LET t == TempDir(cTmpdir, dirs, made, mkOk) IN
          IF ~cManifest \/ ~cImage
          THEN /\ Panic("package")
               /\ UNCHANGED <<cTmpdir, dirs, made, cStemcell, pkg>>
          ELSE /\ cTmpdir' = t.tmpdir /\ dirs' = t.dirs /\ made' = t.made
               /\ UNCHANGED exitStatus
               /\ IF t.res.err # "nil"
                  THEN Fail("package") /\ UNCHANGED <<cStemcell, pkg>>
                  ELSE /\ cStemcell' = TRUE
                       /\ IF ok
                          THEN /\ pkg' = "partial"
                               /\ mpc' = "packageWrite"
                               /\ UNCHANGED <<stages, failed>>
                          ELSE UNCHANGED pkg /\ Fail("package")
    /\ UNCHANGED <<variant, cImage, cManifest, cSha1sum, wsFiles,
                   outFile, stopping, hpc, errPrinted, killed>>
    /\ UNCHANGED <<cStop, configRest>>
    /\ UNCHANGED pkgEntries
    /\ UNCHANGED runFrame

ImageName == "image"
ManifestName == "stemcell.MF"

\* c.AddTarFile(tr, name): os.Open(name), tr.WriteHeader, io.Copy(tr, c.Reader(f))
AddTarFile(tr, name, files, stop) ==
    IF name \notin files THEN [entries |-> tr.entries, err |-> "ErrOpen"]
    ELSE IF stop THEN [entries |-> tr.entries, err |-> "ErrInterupt"]
    ELSE [entries |-> Append(tr.entries, name), err |-> "nil"]

\* mutant: the manifest is added before the image
WriteStemcellManifestFirst(files, stop, ok) ==
    LET a == AddTarFile([entries |-> <<>>, err |-> "nil"], ManifestName, files, stop)
        b == IF a.err = "nil" THEN AddTarFile(a, ImageName, files, stop) ELSE a
    IN IF b.err # "nil" THEN b
       ELSE IF stop THEN [entries |-> b.entries, err |-> "ErrInterupt"]
       ELSE IF ~ok THEN [entries |-> b.entries, err |-> "ErrClose"]
       ELSE b

\* CreateStemcell from gzip.NewWriter on: AddTarFile(tr, c.Image),
\* AddTarFile(tr, c.Manifest), tr.Close(), w.Close(); ok tells whether the
\* writes to the file succeed
WriteStemcell(files, stop, ok) ==
    LET a == AddTarFile([entries |-> <<>>, err |-> "nil"], ImageName, files, stop)
        b == IF a.err = "nil" THEN AddTarFile(a, ManifestName, files, stop) ELSE a
    IN IF b.err # "nil" THEN b
       ELSE IF stop THEN [entries |-> b.entries, err |-> "ErrInterupt"]
       ELSE IF ~ok THEN [entries |-> b.entries, err |-> "ErrClose"]
       ELSE b

\* mutant: a failed write is not noticed
RunStemcellWriteIgnoresError ==
    /\ Running /\ mpc = "packageWrite"
    /\ \E ok \in BOOLEAN :
          LET w == WriteStemcell(wsFiles, cStop, ok) IN
          /\ pkg' = IF w.err = "nil" /\ pkg = "partial" THEN "complete" ELSE pkg
          /\ pkgEntries' = w.entries
          /\ Succeed("package", "publish")
    /\ UNCHANGED <<variant, cImage, cManifest, cStemcell, cSha1sum, wsFiles,
                   outFile, stopping, hpc, exitStatus, errPrinted, killed>>
    /\ UNCHANGED configVars
    /\ UNCHANGED runFrame

\* c.CreateStemcell(): the two AddTarFile calls and the two Close calls,
\* all writing through c.Writer; errorf removes the file
RunStemcellWrite ==
    /\ Running /\ mpc = "packageWrite"
    /\ \E ok \in BOOLEAN :
          LET w == WriteStemcell(wsFiles, cStop, ok) IN
          IF w.err = "nil"
          THEN /\ pkg' = IF pkg = "partial" THEN "complete" ELSE pkg
               /\ pkgEntries' = w.entries
               /\ Succeed("package", "publish")
          ELSE pkg' = NoFile /\ pkgEntries' = <<>> /\ Fail("package")
    /\ UNCHANGED <<variant, cImage, cManifest, cStemcell, cSha1sum, wsFiles,
                   outFile, stopping, hpc, exitStatus, errPrinted, killed>>
    /\ UNCHANGED configVars
    /\ UNCHANGED runFrame

\* os.Rename(c.Stemcell, stemcellPath)
RunPublish ==
    /\ Running /\ mpc = "publish"
    /\ \E ok \in BOOLEAN :
          IF ok /\ pkg # NoFile
          THEN outFile' = pkg /\ pkg' = NoFile /\ Succeed("publish", "return")
          ELSE UNCHANGED <<outFile, pkg>> /\ Fail("publish")
    /\ UNCHANGED <<variant, cImage, cManifest, cStemcell, cSha1sum, wsFiles,
                   stopping, hpc, exitStatus, errPrinted, killed>>
    /\ UNCHANGED configVars
    /\ UNCHANGED pkgEntries
    /\ UNCHANGED runFrame

\* the run succeeded: main returns
RunReturn ==
    /\ Running /\ mpc = "return"
    /\ mpc' = "exited"
    /\ exitStatus' = "ok"
    /\ UNCHANGED <<variant, cImage, cManifest, cStemcell, cSha1sum, wsFiles, pkg,
                   outFile, stages, failed, stopping, hpc, errPrinted, killed>>
    /\ UNCHANGED configVars
    /\ UNCHANGED pkgEntries
    /\ UNCHANGED runFrame

\* mutant: the error exit leaves the temporary directory
OnErrorKeeps(v, tmp, ds) ==
    IF v = "ova"
    THEN [dirs |-> ds, printed |-> TRUE, status |-> "fail"]
    ELSE [dirs |-> ds, printed |-> FALSE, status |-> "ok"]

\* what main does with an error.  "ova": exit(err) prints it, calls
\* c.Cleanup() and os.Exit(1).  "vhd": c.Cleanup(), then main returns.
OnError(v, tmp, ds) ==
    IF v = "ova"
    THEN [dirs |-> Cleanup(tmp, ds), printed |-> TRUE, status |-> "fail"]
    ELSE [dirs |-> Cleanup(tmp, ds), printed |-> FALSE, status |-> "ok"]

RunFail ==
    /\ Running /\ mpc = "fail"
    /\ LET e == OnError(variant, cTmpdir, dirs) IN
         /\ dirs' = e.dirs
         /\ wsFiles' = FilesIn(e.dirs, wsFiles)
         /\ pkg' = PkgIn(e.dirs, pkg)
         /\ errPrinted' = e.printed
         /\ exitStatus' = e.status
    /\ mpc' = "exited"
    /\ UNCHANGED <<variant, cImage, cManifest, cStemcell, cSha1sum,
                   outFile, stages, failed, stopping, hpc, killed>>
    /\ UNCHANGED <<cStop, cTmpdir, made, configRest>>
    /\ UNCHANGED pkgEntries
    /\ UNCHANGED runFrame

\* the handler receives the first signal: stopping = true; c.Stop() closes
\* the channel
SignalStop ==
    /\ Running /\ hpc = "wait" /\ ~stopping
    /\ stopping' = TRUE
    /\ cStop' = TRUE
    /\ cpanic' = ClosePanics(cStop)
    /\ stopCalls' = stopCalls + 1
    /\ hpc' = "cleanup"
    /\ UNCHANGED <<variant, mpc, cImage, cManifest, cStemcell, cSha1sum, wsFiles,
                   pkg, outFile, stages, failed, exitStatus, errPrinted, killed>>
    /\ UNCHANGED <<cTmpdir, dirs, made, call, res, under, ioUnder, ncalls>>
    /\ UNCHANGED pkgEntries
    /\ UNCHANGED runFrame

\* c.Stop(): the deferred c.Cleanup()
HandlerCleanup ==
    /\ Running /\ hpc = "cleanup"
    /\ dirs' = Cleanup(cTmpdir, dirs)
    /\ wsFiles' = FilesIn(dirs', wsFiles)
    /\ pkg' = PkgIn(dirs', pkg)
    /\ hpc' = "wait"
    /\ UNCHANGED <<variant, mpc, cImage, cManifest, cStemcell, cSha1sum,
                   outFile, stages, failed, stopping, exitStatus, errPrinted,
                   killed>>
    /\ UNCHANGED <<cStop, cTmpdir, made, configRest>>
    /\ UNCHANGED pkgEntries
    /\ UNCHANGED runFrame

\* mutant: the handler calls c.Stop() for a later signal as well
SignalExitStopsAgain ==
    /\ Running /\ hpc = "wait" /\ stopping
    /\ cpanic' = ClosePanics(cStop)
    /\ stopCalls' = stopCalls + 1
    /\ exitStatus' = IF cpanic' THEN "panic" ELSE exitStatus
    /\ UNCHANGED <<variant, mpc, cImage, cManifest, cStemcell, cSha1sum, wsFiles,
                   pkg, outFile, stages, failed, stopping, hpc, errPrinted,
                   killed>>
    /\ UNCHANGED <<cStop, cTmpdir, dirs, made, call, res, under, ioUnder, ncalls>>
    /\ UNCHANGED pkgEntries
    /\ UNCHANGED runFrame

\* the handler receives a second signal: os.Exit(1)
SignalExit ==
    /\ Running /\ hpc = "wait" /\ stopping
    /\ exitStatus' = "fail"
    /\ killed' = TRUE
    /\ UNCHANGED <<variant, mpc, cImage, cManifest, cStemcell, cSha1sum, wsFiles,
                   pkg, outFile, stages, failed, stopping, hpc, errPrinted>>
    /\ UNCHANGED configVars
    /\ UNCHANGED pkgEntries
    /\ UNCHANGED runFrame

\* another process creates a file at the output path after
\* ValidateStemcellFilename has found none
OutputAppears ==
    /\ Running /\ mpc # "exited"
    /\ outFile = NoFile
    /\ outFile' = "other"
    /\ UNCHANGED <<variant, mpc, cImage, cManifest, cStemcell, cSha1sum, wsFiles,
                   pkg, stages, failed, stopping, hpc, exitStatus, errPrinted,
                   killed>>
    /\ UNCHANGED configVars
    /\ UNCHANGED pkgEntries
    /\ UNCHANGED runFrame

(***************************************************************************)
(* ValidateVersion and validateVersion.                                    *)
(***************************************************************************)
MaxVersion == 4

NewLine == "\n"
VersionChars == {"0", "1", Dot, "a", "-", " ", NewLine}

IsDigit(ch) == \E d \in DOMAIN Digits : Digits[d] = ch
IsSpace(ch) == ch \in {" ", NewLine}

\* strings.TrimSpace
RECURSIVE TrimLeft(_)
TrimLeft(str) ==
    IF str # <<>> /\ IsSpace(str[1]) THEN TrimLeft(Tail(str)) ELSE str

RECURSIVE TrimRight(_)
TrimRight(str) ==
    IF str # <<>> /\ IsSpace(str[Len(str)])
    THEN TrimRight(SubSeq(str, 1, Len(str) - 1))
    ELSE str

TrimSpace(str) == TrimRight(TrimLeft(str))

\* regexp.MustCompile(`^\d{1,}.\d{1,}$`).MatchString(s): one or more digits,
\* any one character but a newline, one or more digits
MatchVersion(str) ==
    \E i \in 2..(Len(str) - 1) :
        /\ str[i] # NewLine
        /\ \A j \in 1..(i - 1) : IsDigit(str[j])
        /\ \A j \in (i + 1)..Len(str) : IsDigit(str[j])

validateVersion(str) ==
    IF str = <<>> THEN "ErrMissingVersion"
    ELSE IF ~MatchVersion(str) THEN "ErrInvalidVersion"
    ELSE "nil"

ValidateVersion(str) == validateVersion(TrimSpace(str))

VMXIdle == vmxName = <<>> /\ vmxOut = <<>> /\ vmxErr = "none"

\* no flag given, no argument left over
NoFlags ==
    [vhd |-> "", delta |-> "", nargs |-> 0, output |-> "", version |-> <<>>,
     taken |-> FALSE]

NoErrors == [errs |-> <<>>, panic |-> FALSE]

FlagsIdle == flagsIn = NoFlags /\ inputErr = "none" /\ flagsOut = NoErrors

FnIdle ==
    /\ fpc = "idle" /\ version = <<>> /\ verr = "none" /\ verrLower = "none"
    /\ VMXIdle
    /\ FlagsIdle

VersionInit ==
    /\ fpc = "called"
    /\ version \in SeqsUpTo(VersionChars, MaxVersion)
    /\ verr = "none" /\ verrLower = "none"
    /\ VMXIdle
    /\ FlagsIdle

CallValidateVersion ==
    /\ fpc = "called"
    /\ verr' = ValidateVersion(version)
    /\ verrLower' = validateVersion(version)
    /\ fpc' = "done"
    /\ UNCHANGED <<version, vmxName, vmxOut, vmxErr>>
    /\ UNCHANGED <<flagsIn, inputErr, flagsOut>>
    /\ UNCHANGED fnFrame

(***************************************************************************)
(* VMXTemplate, and parseVMX of its test.                                  *)
(***************************************************************************)
MaxName == 4

NameChars == {"a", "b", Dot}
Quote == "\""
FileNameKey == "scsi0:0.fileName"

\* the value of a line: the text between double quotes
Quoted(str) == <<Quote>> \o str \o <<Quote>>

\* the lines of the template besides the one naming the disk
TemplateLines ==
    <<[key |-> "config.version", value |-> Quoted(<<"8">>)],
      [key |-> "scsi0.present", value |-> Quoted(<<"T">>)],
      [key |-> "scsi0:0.present", value |-> Quoted(<<"T">>)]>>

\* mutant: the disk line names the key of the controller
VMXTemplateWrongKey(name) ==
    IF name = <<>> THEN [err |-> "ErrEmptyFilename", lines |-> <<>>]
    ELSE [err |-> "nil",
          lines |-> Append(TemplateLines,
                           [key |-> "scsi0.present", value |-> Quoted(name)])]

VMXTemplate(name) ==
    IF name = <<>> THEN [err |-> "ErrEmptyFilename", lines |-> <<>>]
    ELSE [err |-> "nil",
          lines |-> Append(TemplateLines,
                           [key |-> FileNameKey, value |-> Quoted(name)])]

\* strconv.Unquote of a double-quoted string without escapes
Unquote(q) ==
    IF /\ Len(q) >= 2 /\ q[1] = Quote /\ q[Len(q)] = Quote
       /\ \A i \in 2..(Len(q) - 1) : q[i] \notin {Quote, NewLine}
    THEN [err |-> "nil", str |-> SubSeq(q, 2, Len(q) - 1)]
    ELSE [err |-> "ErrSyntax", str |-> <<>>]

\* parseVMX: a map from key to unquoted value; an invalid value, a
\* duplicate key and an empty document are errors
RECURSIVE ParseLines(_, _)
ParseLines(lines, m) ==
    IF lines = <<>> THEN [err |-> "nil", map |-> m]
    ELSE LET l == Head(lines)
             u == Unquote(l.value)
         IN IF u.err # "nil" THEN [err |-> u.err, map |-> m]
            ELSE IF l.key \in DOMAIN m THEN [err |-> "ErrDuplicateKey", map |-> m]
            ELSE ParseLines(Tail(lines), (l.key :> u.str) @@ m)

parseVMX(lines) ==
    LET p == ParseLines(lines, <<>>) IN
    IF p.err = "nil" /\ DOMAIN p.map = {}
    THEN [err |-> "ErrEmptyVMX", map |-> p.map]
    ELSE p

VMXInit ==
    /\ fpc = "called"
    /\ version = <<>> /\ verr = "none" /\ verrLower = "none"
    /\ vmxName \in SeqsUpTo(NameChars, MaxName)
    /\ vmxOut = <<>> /\ vmxErr = "none"
    /\ FlagsIdle

CallVMXTemplate ==
    /\ fpc = "called"
    /\ LET t == VMXTemplate(vmxName) IN
         vmxOut' = t.lines /\ vmxErr' = t.err
    /\ fpc' = "done"
    /\ UNCHANGED <<version, verr, verrLower, vmxName>>
    /\ UNCHANGED <<flagsIn, inputErr, flagsOut>>
    /\ UNCHANGED fnFrame

(***************************************************************************)
(* The validation of the command line.  A flag's value is the empty string *)
(* or a path, and a path is known by what the file system has there.       *)
(***************************************************************************)
\* most arguments left over after the flags
MaxArgs == 2

FlagValues == {"", "missing", "regular", "dir", "pipe"}

\* the versions a command line is given in the model
FlagVersions == {<<>>, <<"1", Dot, "0">>, <<"a">>}

\* the error of os.Stat(name): the empty path names no file
Stat(name) == IF name \in {"", "missing"} THEN "ENOENT" ELSE "nil"

validFile(name) ==
    IF Stat(name) # "nil" THEN Stat(name)
    ELSE IF name # "regular" THEN "ErrNotRegular"
    ELSE "nil"

ValidateInputFlags(VHDFile, DeltaFile, nargs) ==
    IF VHDFile = "" /\ DeltaFile = "" THEN "ErrNeither"
    ELSE IF VHDFile # "" /\ DeltaFile # "" THEN "ErrBoth"
    ELSE IF nargs # 0 THEN "ErrExtraArgs"
    ELSE IF validFile(VHDFile) # "nil" THEN "ErrInvalidVhd"
    ELSE IF validFile(DeltaFile) # "nil" THEN "ErrInvalidDelta"
    ELSE "nil"

InputFlagsInit ==
    /\ fpc = "called"
    /\ version = <<>> /\ verr = "none" /\ verrLower = "none"
    /\ VMXIdle
    /\ flagsIn \in [vhd : FlagValues, delta : FlagValues, nargs : 0..MaxArgs,
                    output : {""}, version : {<<>>}, taken : {FALSE}]
    /\ inputErr = "none" /\ flagsOut = NoErrors

CallValidateInputFlags ==
    /\ fpc = "called"
    /\ inputErr' = ValidateInputFlags(flagsIn.vhd, flagsIn.delta, flagsIn.nargs)
    /\ fpc' = "done"
    /\ UNCHANGED <<version, verr, verrLower, vmxName, vmxOut, vmxErr>>
    /\ UNCHANGED <<flagsIn, flagsOut>>
    /\ UNCHANGED fnFrame

\* the errors a step adds to errs
Add(cond, err) == IF cond THEN <<err>> ELSE <<>>

\* the error of os.Stat(filepath.Join(OutputDir, StemcellFilename(Version)))
StatStemcell(output, taken) ==
    IF output \in {"regular", "pipe"} THEN "ENOTDIR"
    ELSE IF output \in {"", "dir"} /\ taken THEN "nil"
    ELSE "ENOENT"

\* !os.IsNotExist(err)
IsNotExist(err) == err = "ENOENT"

\* the steps up to the os.Stat of the output directory
FlagsBeforeIsDir(f) ==
    Add(f.nargs # 0, "ErrExtraArgs")
    \o Add(f.vhd = "", "ErrMissingVhd")
    \o Add(validFile(f.vhd) # "nil", "ErrInvalidVhd")
    \o Add(f.delta = "", "ErrMissingDelta")
    \o Add(validFile(f.delta) # "nil", "ErrInvalidDelta")
    \o Add(f.output = "", "ErrMissingOutput")
    \o Add(Stat(f.output) # "nil", "ErrOpeningOutput")

\* the steps from fi.IsDir() on
FlagsAfterStat(f) ==
    Add(f.output # "dir", "ErrNotDirectory")
    \o Add(validateVersion(f.version) # "nil", validateVersion(f.version))
    \o Add(~IsNotExist(StatStemcell(f.output, f.taken)), "ErrExists")

\* fi is nil when os.Stat failed, and fi.IsDir() then panics
ValidateFlags(f) ==
    IF Stat(f.output) # "nil"
    THEN [errs |-> FlagsBeforeIsDir(f), panic |-> TRUE]
    ELSE [errs |-> FlagsBeforeIsDir(f) \o FlagsAfterStat(f), panic |-> FALSE]

FlagsInit ==
    /\ fpc = "called"
    /\ version = <<>> /\ verr = "none" /\ verrLower = "none"
    /\ VMXIdle
    /\ flagsIn \in [vhd : FlagValues, delta : FlagValues, nargs : 0..MaxArgs,
                    output : FlagValues, version : FlagVersions,
                    taken : BOOLEAN]
    /\ flagsIn.taken => flagsIn.output \in {"", "dir"}
    /\ inputErr = "none" /\ flagsOut = NoErrors

CallValidateFlags ==
    /\ fpc = "called"
    /\ flagsOut' = ValidateFlags(flagsIn)
    /\ fpc' = "done"
    /\ UNCHANGED <<version, verr, verrLower, vmxName, vmxOut, vmxErr>>
    /\ UNCHANGED <<flagsIn, inputErr>>
    /\ UNCHANGED fnFrame

\* the signal handler calls c.Stop() while realMain is inside rdiff.Patch,
\* between two operations of ApplyDelta; the directory is left to Cleanup
PatchInterrupt ==
    /\ pc \in {"apply", "write"}
    /\ ~cStop
    /\ cStop' = TRUE
    /\ stopCalls' = stopCalls + 1
    /\ UNCHANGED <<cTmpdir, dirs, made, cpanic, call, res, under, ioUnder,
                   ncalls>>
    /\ UNCHANGED <<patchVars, extractVars, docVars, runVars, fnVars>>

(***************************************************************************)
(* Specifications: one per component, the other components idle.          *)
(***************************************************************************)
Init == PatchInit /\ ExtractIdle /\ DocIdle /\ ConfigIdle /\ RunIdle /\ FnIdle

Next ==
    \/ PatchOpen
    \/ PatchHeader
    \/ PatchSpawn
    \/ DecodeRead
    \/ DecodeSendHash
    \/ DecodeReturn
    \/ DecodeAssign
    \/ DecodeClose
    \/ ApplyRecv
    \/ ApplyClosed
    \/ ApplyWrite
    \/ PatchAfterApply
    \/ PatchRecvHash

Spec == Init /\ [][Next]_vars

\* Patch as a stage of a run that can be cancelled
NextCancel == Next \/ PatchInterrupt

SpecCancel == Init /\ [][NextCancel]_vars

InitExtract == PatchIdle /\ ExtractInit /\ DocIdle /\ ConfigIdle /\ RunIdle /\ FnIdle

NextExtract ==
    \/ ExtractOpen
    \/ ExtractEOF
    \/ ExtractEntry
    \/ ExtractLoopEnd
    \/ ExtractAfter

SpecExtract == InitExtract /\ [][NextExtract]_vars

InitDoc == PatchIdle /\ ExtractIdle /\ DocInit /\ ConfigIdle /\ RunIdle /\ FnIdle

NextDoc ==
    \/ Remove
    \/ RemoveAgain

SpecDoc == InitDoc /\ [][NextDoc]_vars

InitConfig == PatchIdle /\ ExtractIdle /\ DocIdle /\ ConfigIdle /\ RunIdle /\ FnIdle

NextConfig ==
    \/ CallStop
    \/ CallCleanup
    \/ CallTempDir
    \/ CallWrapper
    \/ RemovedOutside

SpecConfig == InitConfig /\ [][NextConfig]_vars

InitRun == PatchIdle /\ ExtractIdle /\ DocIdle /\ ConfigIdle /\ RunInit /\ FnIdle

NextRun ==
    \/ RunWorkspace
    \/ RunPatch
    \/ RunDescriptor
    \/ RunConversion
    \/ RunValidate
    \/ RunImage
    \/ RunManifest
    \/ RunStemcellOpen
    \/ RunStemcellWrite
    \/ RunPublish
    \/ RunReturn
    \/ RunFail
    \/ SignalStop
    \/ HandlerCleanup
    \/ SignalExit

SpecRun == InitRun /\ [][NextRun]_vars

\* a run whose output directory other processes write to
NextPublish == NextRun \/ OutputAppears

SpecPublish == InitRun /\ [][NextPublish]_vars

InitVersion ==
    PatchIdle /\ ExtractIdle /\ DocIdle /\ ConfigIdle /\ RunIdle /\ VersionInit

NextVersion == CallValidateVersion

SpecVersion == InitVersion /\ [][NextVersion]_vars

InitVMX ==
    PatchIdle /\ ExtractIdle /\ DocIdle /\ ConfigIdle /\ RunIdle /\ VMXInit

NextVMX == CallVMXTemplate

SpecVMX == InitVMX /\ [][NextVMX]_vars

InitInputFlags ==
    PatchIdle /\ ExtractIdle /\ DocIdle /\ ConfigIdle /\ RunIdle /\ InputFlagsInit

NextInputFlags == CallValidateInputFlags

SpecInputFlags == InitInputFlags /\ [][NextInputFlags]_vars

InitFlags ==
    PatchIdle /\ ExtractIdle /\ DocIdle /\ ConfigIdle /\ RunIdle /\ FlagsInit

NextFlags == CallValidateFlags

SpecFlags == InitFlags /\ [][NextFlags]_vars

(***************************************************************************)
(* Patch: properties.                                                      *)
(***************************************************************************)
\* the delta file is the correct encoding of want against basis
CorrectDelta == \E bs \in 1..MaxBlock : delta = Wire(basis, bs, want)

\* the delta file is correct but for its checksum record
CorrectButForHash ==
    \E bs \in 1..MaxBlock, m \in {"none", "noHash", "wrongHash"} :
        delta = Mangle(Wire(basis, bs, want), m, basis, bs)

Returned == pc = "done" /\ openFail = "none"

\* C1: Patch with verification, on a correctly encoded delta of a target
\* against the basis, returns no error and has written exactly the target.
C1_PatchReconstructsTarget ==
    (Returned /\ checkFile /\ CorrectDelta) => (ret = "nil" /\ out = want)

C1_Witness ==
    /\ Returned /\ checkFile /\ CorrectDelta
    /\ ret = "nil" /\ out = want
    /\ Len(want) >= 3
    /\ \E i \in 1..Len(delta) : delta[i].t = "block"
    /\ \E i \in 1..Len(delta) : delta[i].t = "data"

\* C2: Patch with verification returns success only when it received a
\* checksum record equal to the digest of the bytes written; a record that
\* differs gives HashNoMatchError, the end of the stream without a record
\* gives NoTargetSumError, and the receive of the record never blocks.
C2_VerificationIsEnforced ==
    /\ (Returned /\ checkFile /\ ret = "nil")
          => (hashOp.t = "hash" /\ hashOp.data = Sum(out))
    /\ (Returned /\ hashOp.t = "hash" /\ hashOp.data # Sum(out))
          => ret = "HashNoMatchError"
    /\ (Returned /\ hashOp.t = "zero") => ret = "NoTargetSumError"
    /\ pc = "recvHash" => (hashOps # <<>> \/ hashOpsClosed)
    /\ (Returned /\ checkFile /\ applyErr = "nil" /\ decodeError = "nil"
          /\ blockSize # 0)
          => hashOp # NoOp

C2_Witness ==
    /\ Returned /\ checkFile
    /\ hashOp.t = "hash" /\ hashOp.data # Sum(out)
    /\ out = want /\ out # <<>>
    /\ ret = "HashNoMatchError"

C2_WitnessMissing ==
    /\ Returned /\ checkFile
    /\ hashOp.t = "zero"
    /\ out = want /\ out # <<>>
    /\ ret = "NoTargetSumError"

\* C3: without verification a missing or incorrect checksum record does not
\* make Patch fail: a delta correct but for its checksum record is applied
\* with no error and the target is written.
C3_NoVerificationIgnoresChecksum ==
    (Returned /\ ~checkFile /\ CorrectButForHash) => (ret = "nil" /\ out = want)

C3_Witness ==
    /\ Returned /\ ~checkFile /\ CorrectButForHash /\ ~CorrectDelta
    /\ \A i \in 1..Len(delta) : delta[i].t # "hash"
    /\ ret = "nil" /\ out = want /\ out # <<>>

\* C4: a delta stream that ends before its header makes Patch return
\* io.ErrUnexpectedEOF, another header failure is returned as it is, and in
\* both cases the decode task was not started and no byte was written.
C4_TruncatedHeader ==
    /\ (Returned /\ delta = <<>>)
          => (ret = "ErrUnexpectedEOF" /\ dpc = "idle" /\ out = <<>>)
    /\ (Returned /\ delta # <<>> /\ delta[1].type # "delta")
          => (ret = "ErrHeader" /\ dpc = "idle" /\ out = <<>>)

C4_Witness ==
    /\ Returned /\ delta = <<>>
    /\ ret = "ErrUnexpectedEOF" /\ dpc = "idle" /\ out = <<>> /\ created

(***************************************************************************)
(* ExtractOVA: properties.                                                 *)
(***************************************************************************)
Extracted == xpc = "done" /\ ovaExists

\* the files the entries 1..n of a give when each is written in full
FilesOf(a, n) ==
    [nm \in {a[i].name : i \in 1..n} |->
        LET i == CHOOSE j \in 1..n : a[j].name = nm
        IN File(a[i].content, a[i].perm)]

\* C5: an archive of Limit + 1 valid entries is refused as having too many
\* files and at most Limit files have been written to the destination.
C5_StopsBeforeOffendingEntry ==
    (Extracted /\ archive = CleanArchive(Limit + 1) /\ dest0 = EmptyDir)
        => (xret = "ErrTooManyFiles" /\ Cardinality(DOMAIN dest) <= Limit)

\* C6: a valid archive of N <= Limit entries with distinct names, extracted
\* into an empty destination, gives no error and exactly its N files.
C6_ValidArchiveExtracted ==
    \A n \in 0..Limit :
        (Extracted /\ archive = CleanArchive(n) /\ dest0 = EmptyDir)
            => (xret = "nil" /\ dest = FilesOf(archive, n))

\* the name has a directory component, or is empty
ImpliesSubdirectory(name) ==
    \/ name = <<>>
    \/ /\ name # <<Slash>>
       /\ \E k \in 1..Len(name) : name[k] = Slash

\* C7: an entry whose name implies a subdirectory and an entry that is not a
\* regular file end the extraction with an error, and no file is created
\* for the entry.
C7_RejectsSubdirAndNonRegular ==
    [][(/\ xpc = "loop"
        /\ apos < Len(archive)
        /\ apos' = apos + 1
        /\ archive[apos + 1].type # "corrupt"
        /\ \/ ImpliesSubdirectory(archive[apos + 1].name)
           \/ archive[apos + 1].type # "regular")
       => (/\ xpc' = "done"
           /\ xret' = IF ImpliesSubdirectory(archive[apos + 1].name)
                      THEN "ErrSubdirectory" ELSE "ErrFileMode"
           /\ dest' = dest
           /\ madeFor' = madeFor)]_vars

C7_Witness ==
    /\ Extracted /\ apos >= 2
    /\ archive[apos].type = "symlink"
    /\ xret = "ErrFileMode"
    /\ madeFor = 1..(apos - 1)

\* C8: an entry whose name the destination already holds, from before the
\* call or from an earlier entry, ends the extraction with an error and
\* leaves the destination as it was.
C8_ExclusiveCreate ==
    [][(/\ xpc = "loop"
        /\ apos < Len(archive)
        /\ apos' = apos + 1
        /\ archive[apos + 1].type # "corrupt"
        /\ archive[apos + 1].name \in DOMAIN dest)
       => (/\ xpc' = "done"
           /\ xret' \notin {"nil", "running"}
           /\ dest' = dest)]_vars

C8_Witness ==
    /\ Extracted /\ apos >= 2
    /\ xret = "ErrOpenFile"
    /\ archive[apos].name = archive[1].name
    /\ archive[apos].content # archive[1].content
    /\ dest0 = EmptyDir
    /\ dest[archive[apos].name] = File(archive[1].content, archive[1].perm)

\* C9: when ExtractOVA has returned an error no further entry is processed
\* and no file is created after it, and the files written for the entries
\* before the failing one remain, as do the files that were there before.
C9_StopsAtFirstError ==
    /\ [](Extracted /\ xret # "nil"
            => /\ madeFor \subseteq 1..apos
               /\ \A i \in 1..(apos - 1) :
                     /\ i \in madeFor
                     /\ archive[i].name \in DOMAIN dest
                     /\ dest[archive[i].name] = File(archive[i].content, archive[i].perm)
               /\ \A nm \in DOMAIN dest0 :
                     nm \in DOMAIN dest /\ dest[nm] = dest0[nm])
    /\ [][xret # "running" => (dest' = dest /\ apos' = apos /\ xret' = xret)]_vars

C9_Witness ==
    /\ Extracted /\ apos = 2 /\ Len(archive) = 3
    /\ xret = "ErrSubdirectory"
    /\ archive[3].type = "regular" /\ archive[3].name = <<"b">>
    /\ madeFor = {1}
    /\ dest0 # EmptyDir
    /\ Cardinality(DOMAIN dest) = 2

(***************************************************************************)
(* RemoveItemBlock: properties.                                            *)
(***************************************************************************)
\* the Item blocks of d that hold the name id, as pairs of positions
MatchingBlocks(d, id) ==
    {sp \in (1..Len(d)) \X (1..Len(d)) :
        /\ sp[1] < sp[2]
        /\ d[sp[1]] = ItemOpen
        /\ d[sp[2]] = ItemClose
        /\ \A k \in (sp[1] + 1)..(sp[2] - 1) : d[k] \notin {ItemOpen, ItemClose}
        /\ \E k \in (sp[1] + 1)..(sp[2] - 1) : d[k] = id}

\* C10: RemoveItemBlock returns ErrElementNotFound when no block has the
\* identifier, ErrMultipleElementsFound when two or more have it, and no
\* error when exactly one has it.
C10_RemoveItemBlockErrors ==
    rpc # "start" /\ rpc # "idle" =>
        LET n == Cardinality(MatchingBlocks(doc, rid)) IN
        /\ n = 0 => rerr = "ErrElementNotFound"
        /\ n >= 2 => rerr = "ErrMultipleElementsFound"
        /\ n = 1 => rerr = "nil"

C10_Witness ==
    /\ rpc = "removed"
    /\ Cardinality(MatchingBlocks(doc, rid)) = 2
    /\ rerr = "ErrMultipleElementsFound"

\* the document d without the positions first..last
WithoutSpan(d, first, last) ==
    [i \in 1..(Len(d) - (last - first + 1)) |->
        IF i < first THEN d[i] ELSE d[i + (last - first + 1)]]

\* C11: when exactly one block matches, RemoveItemBlock returns the document
\* without that block's span, every other token unchanged and in order, and
\* RemoveItemBlock with the same id on the result returns ErrElementNotFound.
C11_RemovesOnlyTheBlock ==
    (rpc \in {"removed", "done"} /\ Cardinality(MatchingBlocks(doc, rid)) = 1) =>
        LET sp == CHOOSE x \in MatchingBlocks(doc, rid) : TRUE IN
        /\ rerr = "nil"
        /\ rdoc = WithoutSpan(doc, sp[1], sp[2])
        /\ rpc = "done" => rerr2 = "ErrElementNotFound"

C11_Witness ==
    /\ rpc = "done"
    /\ Cardinality(MatchingBlocks(doc, rid)) = 1
    /\ rerr2 = "ErrElementNotFound"
    /\ Len(rdoc) = 3 /\ Len(doc) = 6
    /\ \E i \in 1..Len(rdoc) : rdoc[i] = ItemOpen
    /\ \E i \in 1..Len(rdoc) : rdoc[i] \in Ids

(***************************************************************************)
(* Config and the wrappers: properties.                                    *)
(***************************************************************************)
\* C12: once the stop channel is closed every Read or Write on a wrapper
\* returns (0, ErrInterupt) without invoking the wrapped stream; before
\* that each call invokes the wrapped stream once and returns its result;
\* the channel stays closed.
C12_WrappersObserveStop ==
    [][/\ cStop => cStop'
       /\ (call' \in Wrappers /\ ncalls' = ncalls + 1) =>
            IF cStop
            THEN res' = [n |-> 0, err |-> "ErrInterupt"]
                 /\ ioUnder' = ioUnder /\ under' = under
            ELSE ioUnder' = ioUnder + 1 /\ res' = under']_vars

C12_Witness ==
    /\ call = "CancelReader.Read"
    /\ cStop
    /\ res = [n |-> 0, err |-> "ErrInterupt"]
    /\ ioUnder = 1
    /\ under = [n |-> 2, err |-> "nil"]

\* C13: Config.Stop called again after it has been called completes without
\* a panic.
C13_StopIsIdempotent == stopCalls >= 2 => ~cpanic

\* C14: the first TempDir call that succeeds creates the directory, a later
\* call returns the same path while the directory exists and an error once
\* it was removed, and no second directory is ever created.
C14_TempDirIdempotent ==
    /\ [](made <= 1)
    /\ [][(call' = "TempDir" /\ ncalls' = ncalls + 1) =>
            IF cTmpdir = NoDir
            THEN \/ /\ res'.err = "nil"
                    /\ made' = made + 1
                    /\ cTmpdir' # NoDir
                    /\ res'.path = cTmpdir'
                    /\ dirs' = dirs \cup {cTmpdir'}
                 \/ /\ res'.err = "ErrCreatingTempDir"
                    /\ UNCHANGED <<cTmpdir, dirs, made>>
            ELSE /\ UNCHANGED <<cTmpdir, dirs, made>>
                 /\ IF cTmpdir \in dirs
                    THEN res' = [path |-> cTmpdir, err |-> "nil"]
                    ELSE res'.err = "ErrOpeningTempDir" /\ res'.path = NoDir]_vars

C14_Witness ==
    /\ call = "TempDir"
    /\ res.err = "ErrOpeningTempDir"
    /\ made = 1 /\ cTmpdir # NoDir /\ dirs = {}
    /\ ~cStop

(***************************************************************************)
(* A run of the pipeline: properties.                                      *)
(***************************************************************************)
Ended == exitStatus # "running"

\* C15: a run that ended because a stage failed, or because a signal ended
\* it, has no temporary directory left.
C15_FailedRunDeletesWorkspace ==
    (Ended /\ (failed # "none" \/ killed)) => cTmpdir \notin dirs

\* C16: after a run that published the package the temporary directory does
\* not exist.
C16_SuccessDeletesWorkspace ==
    (Ended /\ failed = "none" /\ ~killed /\ outFile # NoFile) =>
        cTmpdir \notin dirs

PipelineStages(v) ==
    IF v = "vhd"
    THEN <<"workspace", "patch", "descriptor", "conversion", "manifest",
           "package", "publish">>
    ELSE <<"validate", "image", "manifest", "package", "publish">>

C18_PackageKeptWhenPublishFails ==
    (Ended /\ failed = "publish") => pkg = "complete"

\* C18: after a run whose rename failed the temporary directory, and the
\* package with it, has been deleted, and no file is at the output path.
C18_PublishFailureCleansUp ==
    (Ended /\ failed = "publish") =>
        /\ cTmpdir \notin dirs
        /\ pkg = NoFile
        /\ outFile = NoFile

C18_Witness ==
    /\ Ended /\ failed = "publish"
    /\ ~stopping /\ made = 1
    /\ stages = <<"validate", "image", "manifest", "package">>
    /\ cTmpdir \notin dirs

(***************************************************************************)
(* Patch under cancellation, and the order of the operations.              *)
(***************************************************************************)
\* C19: once the stop channel is closed during Patch at most one further
\* transfer is made, and a Patch that made one returns the interrupt error.
C19_StopInterruptsPatch ==
    cStop =>
        /\ afterStop <= 1
        /\ (pc = "done" /\ afterStop >= 1) => ret = "ErrInterupt"

IsOperation(rec) == rec.t \in {"block", "data"}

\* the operations the decode goroutine has decoded so far, in order
Decoded == SelectSeq(SubSeq(delta, 1, dpos), IsOperation)

IsPrefix(a, b) == Len(a) <= Len(b) /\ a = SubSeq(b, 1, Len(a))

\* C20: the operations applied are, in order, the operations decoded, the
\* decoder being at most two ahead; when ApplyDelta returns nil every
\* decoded operation has been applied; only ApplyDelta changes newfile,
\* one operation at a time.
C20_AppliedInDecodeOrder ==
    /\ [](/\ IsPrefix(applied, Decoded)
          /\ Len(Decoded) <= Len(applied) + 2
          /\ (pc \in {"afterApply", "recvHash", "done"} /\ dpc # "idle"
                /\ applyErr = "nil")
               => applied = Decoded)
    /\ [][out' # out =>
            /\ pc = "write"
            /\ applied' = Append(applied, curOp)
            /\ curOp \in {Decoded[i] : i \in 1..Len(Decoded)}]_vars

C20_Witness ==
    /\ pc = "done" /\ ret = "nil"
    /\ Len(applied) >= 2
    /\ applied = Decoded
    /\ applied[1] # applied[2]
    /\ out = want

(***************************************************************************)
(* ValidateVersion: properties.                                            *)
(***************************************************************************)
\* one or more digits, a dot, one or more digits
DigitsDotDigits(str) ==
    \E i \in 2..(Len(str) - 1) :
        /\ str[i] = Dot
        /\ \A j \in (1..Len(str)) \ {i} : IsDigit(str[j])

\* C21: ValidateVersion accepts exactly the strings that are, once the
\* surrounding white space is trimmed, DIGITS.DIGITS; validateVersion
\* accepts exactly the strings of that form.
C21_VersionFormat ==
    fpc = "done" =>
        /\ verr = "nil" <=> DigitsDotDigits(TrimSpace(version))
        /\ verrLower = "nil" <=> DigitsDotDigits(version)

(***************************************************************************)
(* The stemcell package: properties.                                       *)
(***************************************************************************)
\* C22: a stemcell written by a successful CreateStemcell holds exactly two
\* entries, the image file and then the manifest file.
C22_PackageHoldsImageThenManifest ==
    (pkg = "complete" \/ outFile = "complete") =>
        pkgEntries = <<ImageName, ManifestName>>

C22_Witness ==
    /\ mpc = "publish" /\ pkg = "complete"
    /\ stages = <<"validate", "image", "manifest", "package">>
    /\ pkgEntries = <<"image", "stemcell.MF">>

(***************************************************************************)
(* VMXTemplate: properties.                                                *)
(***************************************************************************)
\* C24: for a non-empty file name VMXTemplate returns nil and writes lines
\* of unique keys with quoted values, the value of scsi0:0.fileName being
\* that name; for the empty name it returns an error.
C24_VMXTemplateNamesDisk ==
    fpc = "done" =>
        IF vmxName = <<>>
        THEN vmxErr # "nil"
        ELSE /\ vmxErr = "nil"
             /\ LET m == parseVMX(vmxOut) IN
                  /\ m.err = "nil"
                  /\ FileNameKey \in DOMAIN m.map
                  /\ m.map[FileNameKey] = vmxName

C24_Witness ==
    /\ fpc = "done" /\ vmxErr = "nil"
    /\ vmxName = <<"a", Dot, "b">>
    /\ Len(vmxOut) >= 2

(***************************************************************************)
(* The fields of the Config in a run: properties.                          *)
(***************************************************************************)
\* C23: when WriteManifest has written the manifest, c.Sha1sum had been set
\* by the stage that produced the image.
C23_ManifestChecksumIsSet ==
    ManifestName \in wsFiles => cSha1sum

\* C25: CreateStemcell is called with c.Manifest and c.Image set, and no
\* run ends in one of its panics.
C25_StemcellFieldsAreSet ==
    /\ mpc = "package" => (cManifest /\ cImage)
    /\ exitStatus # "panic"

(***************************************************************************)
(* Patch: the two tasks and their channels, properties.                    *)
(***************************************************************************)
Spawned == dpc # "idle"

\* C26: when ReadOperations has returned an error and ApplyDelta has
\* returned nil, Patch returns that error, without receiving from hashOps.
C26_LateDecodeErrorIsReturned ==
    (pc = "done" /\ Spawned /\ applyErr = "nil" /\ dres # "nil") =>
        /\ ret = dres
        /\ ret # "nil"
        /\ hashOp = NoOp

C26_Witness ==
    /\ pc = "done" /\ Spawned
    /\ applyErr = "nil" /\ dres = "ErrDecode"
    /\ Len(applied) >= 1 /\ applied = Decoded
    /\ checkFile
    /\ ret = "ErrDecode"

\* C27: Patch does not return while the decode goroutine is blocked in a
\* send on ops that nothing will receive.
C27_DecodeTaskNeverStuck ==
    ~(pc = "done" /\ dpc = "sendOp")

\* C28: a Patch with verification whose tasks were started has received
\* from hashOps when it returns.
C28_ChecksumReceivedOnce ==
    (pc = "done" /\ checkFile /\ Spawned) => hashOp # NoOp

\* the operations the applier has taken from ops
Taken == Len(applied) + (IF curOp # NoOp THEN 1 ELSE 0)

\* C29: at most two operations are decoded and not yet taken by the
\* applier; a send on ops completes only together with the applier's
\* receive, and the applier leaves its receive only with an operation or
\* on the closed channel.
C29_OpsQueueIsBounded ==
    /\ [](Len(Decoded) - Taken <= 2)
    /\ [][(dpc = "sendOp" /\ dpc' # "sendOp") =>
            (pc = "apply" /\ pc' = "write" /\ curOp' = pending)]_vars
    /\ [][(pc = "apply" /\ pc' # "apply") =>
            (dpc = "sendOp" \/ opsClosed)]_vars

C29_Witness ==
    /\ pc = "write" /\ dpc = "sendOp"
    /\ Len(Decoded) - Taken = 1
    /\ Len(applied) >= 1

\* C30: Patch reads decodeError only after the decode goroutine has
\* assigned it and closed ops, and the goroutine assigns it once.
C30_DecodeErrorReadAfterWrite ==
    /\ [][(pc = "afterApply" /\ pc' # "afterApply" /\ applyErr = "nil") =>
            (decodeWritten /\ opsClosed /\ decodeError = dres)]_vars
    /\ [][decodeWritten => (decodeWritten' /\ decodeError' = decodeError)]_vars
    /\ [](opsClosed => decodeWritten)

C30_Witness ==
    /\ pc = "recvHash" /\ decodeWritten /\ opsClosed
    /\ decodeError = "nil"
    /\ Len(applied) >= 2

(***************************************************************************)
(* The signal handler, Cleanup and the order of the stages: properties.    *)
(***************************************************************************)
\* C31: the handler calls c.Stop() once, for the first signal: the channel
\* is closed without a panic and Cleanup runs after it; a later signal ends
\* the process with a failure status and does not call Stop again.
C31_HandlerStopsOnce ==
    /\ [](/\ stopCalls <= 1
          /\ ~cpanic
          /\ cStop <=> stopping
          /\ stopping <=> stopCalls = 1
          /\ killed => (stopCalls = 1 /\ exitStatus = "fail"))
    /\ [][stopCalls' # stopCalls => (~stopping /\ cStop' /\ hpc' = "cleanup")]_vars
    /\ [][(hpc = "cleanup" /\ hpc' = "wait") => cTmpdir \notin dirs']_vars
    /\ [][(stopping /\ hpc = "wait" /\ Running) =>
            (stopCalls' = stopCalls /\ (killed' # killed => exitStatus' = "fail"))]_vars

C31_Witness ==
    /\ killed /\ exitStatus = "fail"
    /\ stopCalls = 1 /\ cStop
    /\ made = 1 /\ cTmpdir \notin dirs

\* C32: a run in which the stop channel was closed ends without a temporary
\* directory.
C32_NoWorkspaceAfterStop ==
    (Ended /\ cStop) => cTmpdir \notin dirs

C34_StagesRunInOrder ==
    /\ [](IsPrefix(stages, PipelineStages(variant)))
    /\ [](mpc \in {"workspace", "validate", "patch", "descriptor", "conversion",
                   "image", "manifest", "package", "publish"} =>
            (failed = "none" /\ Len(stages) < Len(PipelineStages(variant))
               /\ PipelineStages(variant)[Len(stages) + 1] = mpc))
    /\ [][failed # "none" => (stages' = stages /\ failed' = failed)]_vars
    /\ [][stages' # stages => (Len(stages') = Len(stages) + 1)]_vars

C34_Witness ==
    /\ variant = "vhd"
    /\ stages = <<"workspace", "patch", "descriptor">>
    /\ failed = "conversion" /\ mpc = "exited"

\* C35: a run that ended with a stage's error has written the error to
\* os.Stderr and has ended with a failure status.
C35_StageErrorIsReported ==
    (Ended /\ failed # "none" /\ ~killed /\ exitStatus # "panic") =>
        (errPrinted /\ exitStatus = "fail")

(***************************************************************************)
(* Partial files and the output path: properties.                          *)
(***************************************************************************)
\* C36: when CreateImageFromOVA or CreateStemcell has returned an error,
\* an interrupt error included, the file it had created is not in the
\* temporary directory; the stemcell is created where none was.
C36_PartialFileIsRemoved ==
    /\ [](failed = "image" => ImageName \notin wsFiles)
    /\ [](failed = "package" => pkg = NoFile)
    /\ [][(mpc = "image" /\ mpc' # mpc /\ cStop) =>
            (failed' = "image" /\ ImageName \notin wsFiles')]_vars
    /\ [][(mpc = "packageWrite" /\ mpc' # mpc /\ cStop) =>
            (failed' = "package" /\ pkg' = NoFile)]_vars
    /\ [][(pkg' = "partial" /\ pkg # "partial") => pkg = NoFile]_vars

\* CreateStemcell was interrupted and the directory is still there
C36_Witness ==
    /\ failed = "package" /\ mpc = "fail"
    /\ cStemcell /\ cStop /\ hpc = "cleanup"
    /\ cTmpdir \in dirs
    /\ pkg = NoFile /\ ImageName \in wsFiles

\* C38: a file that is at the output path before the rename is not
\* replaced.
C38_ExistingOutputIsKept ==
    [][outFile = "other" => outFile' = "other"]_vars

(***************************************************************************)
(* ExtractOVA stays inside the destination directory.                      *)
(***************************************************************************)
\* a name that filepath.Join(dirname, name) puts right under dirname
DirectChild(n) ==
    /\ n # <<>> /\ n # <<Dot>> /\ n # <<Dot, Dot>>
    /\ \A i \in DOMAIN n : n[i] # Slash

\* C37: whatever the names of the archive's entries, every file ExtractOVA
\* has created is a direct child of the destination directory.
C37_CreatesOnlyDirectChildren ==
    \A n \in DOMAIN dest : DirectChild(n)

\* a file was extracted and then an entry named ".." was refused
C37_Witness ==
    /\ xpc = "done" /\ xret = "ErrOpenFile"
    /\ apos >= 2 /\ archive[apos].name = <<Dot, Dot>>
    /\ madeFor # {}
    /\ DOMAIN dest # DOMAIN dest0

(***************************************************************************)
(* The validation of the command line: properties.                         *)
(***************************************************************************)
\* one of the two flags names a regular file and the other is not given
ExactlyOneRegular(f) ==
    \/ f.vhd = "regular" /\ f.delta = ""
    \/ f.vhd = "" /\ f.delta = "regular"

\* C39: ValidateInputFlags returns an error when neither or both of vhd
\* and delta are given, and returns nil when no argument is left over and
\* exactly one of the two is given and is a regular file.
C39_InputFlagsAcceptOne ==
    fpc = "done" =>
        /\ (flagsIn.vhd = "" /\ flagsIn.delta = "") => inputErr # "nil"
        /\ (flagsIn.vhd # "" /\ flagsIn.delta # "") => inputErr # "nil"
        /\ (ExactlyOneRegular(flagsIn) /\ flagsIn.nargs = 0) => inputErr = "nil"

\* C40: ValidateFlags returns its list and does not panic; when the output
\* directory does not exist the list has the error of opening it.
C40_FlagsNeverPanic ==
    fpc = "done" =>
        /\ ~flagsOut.panic
        /\ flagsIn.output = "missing" =>
              \E i \in DOMAIN flagsOut.errs : flagsOut.errs[i] = "ErrOpeningOutput"
====
